---- MODULE Spec2Model ----
(***************************************************************************)
(* Signal-safe capture subsystem of firebase-crashlytics-ndk:              *)
(*   - memory/header.h, memory/allocator.h, memory/allocate.h              *)
(*     (storage tagger, page allocator, static escape hatch)               *)
(*   - lexical_cast.h (integer <-> text)                                   *)
(*   - scoped_writer.h / scoped_writer.cpp (streaming structured writer)   *)
(*   - device_info.cpp (device snapshot record)                            *)
(* Each subsystem has its own specification (SpecAlloc, SpecCast, ...)     *)
(* over the variables it owns; the other variables stay at their initial   *)
(* values.                                                                 *)
(***************************************************************************)
EXTENDS Integers, Sequences, FiniteSets, TLC

VARIABLES
    \* ---- page_allocator<T> instance (allocator.h:76-80) ----
    partial_page_,      \* std::uint8_t* partial_page_ (NullPtr = nullptr)
    page_offset_,       \* std::size_t page_offset_
    page_size_,         \* std::size_t page_size_
    sizeofT,            \* sizeof (T) of the instance's element type
    \* ---- the address space as the kernel sees it ----
    vm,                 \* live anonymous mappings: set of [base, len]
    low,                \* lowest address handed out by mmap so far
    header,             \* header bytes in memory: unmarked address -> Duration
    \* ---- what the callers hold and what the kernel was asked ----
    allocs,             \* pointers returned by allocate() of the instance
    storages,           \* pointers returned by allocate_storage<T>()
    munmaps,            \* every munmap() call made, in order
    last,               \* the last allocator call and its result
    fault,              \* a store hit unmapped memory (SIGSEGV inside the handler)
    \* ---- function-scoped statics of make_function_scoped_static_byte_array<T> ----
    call_count,         \* static std::size_t call_count, per type
    static_storage,     \* payload of static char storage[], per type (0 = zeroed)
    \* ---- the build ----
    new_checks_null,    \* does `new (p) T()` test p for null before constructing?
    \* ---- lexical_cast.h: one conversion and its way back ----
    cast_value,         \* the uint64_t handed to the encoder
    cast_buffer,        \* char* buffer: the characters written so far
    cast_length,        \* the length the encoder returned
    cast_result,        \* what lexical_cast<uint64_t>(buffer, length) returned
    cast_pc,            \* "start", "decimal", "hex", "decoded_decimal", "decoded_hex"
    atoll_overflow,     \* what the C library's atoll does out of range
    \* ---- scoped_writer over one descriptor ----
    fd_out,             \* the bytes handed to write(fd_, ...), in order
    fd_log,             \* the other system calls made on fd_, in order
    scopes,             \* the live `wrapped` objects, innermost last
    asked,              \* positions of fd_out that hold a delimiter the caller chose
    ops,                \* writer calls made so far
    \* ---- write_device_info ----
    di_pc,              \* position inside write_device_info
    di_memory,          \* auto memory  = detail::memory_statistics()
    di_storage,         \* auto storage = detail::internal_storage_statistics()
    di_battery,         \* auto battery = static_cast<uint64_t>(detail::battery_capacity())
    proximity_sensor_enabled,
    \* ---- memory_statistics_from_proc over the meminfo pseudo-file ----
    mi_file,            \* the bytes of the file
    mi_lines,           \* how the file was put together (for the properties)
    mi_pos,             \* the descriptor's file offset
    mi_total,           \* uint64_t total
    mi_free,            \* uint64_t free
    mi_result,          \* the pair returned
    mi_pc,              \* "start", "total", "free", "done"
    \* ---- write_binary_libs over the memory-map pseudo-file ----
    maps_file,          \* the bytes of /proc/<pid>/maps
    maps_fd,            \* managed.fd(): -1 when the file could not be opened
    maps_pos,           \* the descriptor's file offset
    maps_buffer,        \* char buffer[default_maps_buffer_size()] of read_maps_list
    maps_reads,         \* read() calls that returned data
    maps_pc,            \* "start", "reading", "closing", "done"
    \* ---- write_supplimentary_file ----
    sup_path,           \* const char* minidump_path
    sup_suffix,         \* const char* suffix
    sup_buffer,         \* the string open() reads out of supplimentary_path
    sup_log,            \* the open() calls made: [suffix, path, ok]
    sup_clobbered,      \* bytes were stored past the end of supplimentary_path
    sup_pc,             \* "idle", "start", "made", "opened", "failed", "written", "fault"
    \* ---- CrashpadHandlerMain ----
    hm_argv1,           \* argv[1]
    hm_status,          \* int status = crashpad::HandlerMain(...)
    hm_ret,             \* what CrashpadHandlerMain returned
    hm_pc,              \* "start", "engine", "supp", "done"
    \* ---- install_handlers, crashpad_interface ----
    in_q,               \* is_at_least_q()
    in_ctx,             \* the detail::context of the calls: classpath, lib_path
    in_env,             \* the environment vector built last
    in_pc,              \* per thread: "idle", "env", "resolved", "hooked", "returned"
    in_local,           \* per thread: what the call in progress has done so far
    in_calls,           \* install_handlers calls begun
    in_envs,            \* new std::vector<std::string> executed
    in_hooks,           \* atexit(detail::finalize) executed
    in_starts,          \* Start...HandlerAtCrash calls made on the client
    in_client,          \* the static client: "none", "live", "deleted"
    in_log,             \* the calls that returned, in order of return
    in_exit,            \* "running", "exiting", "exited", "aborted"
    in_pending,         \* exit hooks still to run
    in_released,        \* delete executed on the client
    \* ---- external/crashlytics.h ----
    api_context,        \* __crashlytics_context_t* __context
    api_made,           \* contexts constructed so far
    api_lib,            \* the calls that reached libcrashlytics.so: [fn, ctx]
    api_phase,          \* "never", "initialized", "failed", "terminated"
    api_history,        \* the API calls made: [op, phase, reached]
    \* ---- callers of fgets_safe ----
    fg_file,            \* what the descriptor reads
    fg_size,            \* storage_size
    fg_pos,             \* the file offset of the descriptor
    fg_calls,           \* the calls made: [from, bytes, ok, storage, to]
    fg_pc               \* "reading", "null"

allocVars == <<partial_page_, page_offset_, page_size_, sizeofT, vm, low, header,
               allocs, storages, munmaps, last, fault, call_count, static_storage,
               new_checks_null>>

castVars == <<cast_value, cast_buffer, cast_length, cast_result, cast_pc,
              atoll_overflow>>

writerVars == <<fd_out, fd_log, scopes, asked, ops>>

deviceVars == <<di_pc, di_memory, di_storage, di_battery, proximity_sensor_enabled>>

meminfoVars == <<mi_file, mi_lines, mi_pos, mi_total, mi_free, mi_result, mi_pc>>

\* the subsystems around the capture core
mapsVars == <<maps_file, maps_fd, maps_pos, maps_buffer, maps_reads, maps_pc>>

suppVars == <<sup_path, sup_suffix, sup_buffer, sup_log, sup_clobbered, sup_pc>>

mainVars == <<hm_argv1, hm_status, hm_ret, hm_pc>>

installVars == <<in_q, in_ctx, in_env, in_pc, in_local, in_calls, in_envs, in_hooks, in_starts,
                 in_client, in_log, in_exit, in_pending, in_released>>

apiVars == <<api_context, api_made, api_lib, api_phase, api_history>>

fgetsVars == <<fg_file, fg_size, fg_pos, fg_calls, fg_pc>>

hostVars == <<meminfoVars, mapsVars, suppVars, mainVars, installVars, apiVars, fgetsVars>>

vars == <<allocVars, castVars, writerVars, deviceVars, hostVars>>

\* what each subsystem leaves alone
nonAllocVars == <<castVars, writerVars, deviceVars, hostVars>>
nonCastVars == <<allocVars, writerVars, deviceVars, hostVars>>
nonWriterVars == <<allocVars, castVars, deviceVars, hostVars>>
nonDeviceVars == <<allocVars, castVars, hostVars>>
nonMeminfoVars == <<allocVars, castVars, writerVars, deviceVars, mapsVars,
                    suppVars, mainVars, installVars, apiVars, fgetsVars>>
nonMapsVars == <<allocVars, castVars, deviceVars, meminfoVars, suppVars, mainVars,
                 installVars, apiVars, fgetsVars>>
nonSuppVars == <<allocVars, castVars, writerVars, deviceVars, meminfoVars, mapsVars,
                 installVars, apiVars, fgetsVars>>
nonInstallVars == <<allocVars, castVars, writerVars, deviceVars, meminfoVars, mapsVars,
                    suppVars, mainVars, apiVars, fgetsVars>>
nonApiVars == <<allocVars, castVars, writerVars, deviceVars, meminfoVars, mapsVars,
                suppVars, mainVars, installVars, fgetsVars>>
nonFgetsVars == <<allocVars, castVars, writerVars, deviceVars, meminfoVars, mapsVars,
                  suppVars, mainVars, installVars, apiVars>>

-----------------------------------------------------------------------------
(* Bounds of the model *)

MaxAllocs == 3      \* allocate() calls on the instance that return storage
MaxStorages == 3    \* allocate_storage<T>() calls
MaxUnmaps == 1      \* munmap() calls
MaxOps == 3         \* calls made on one scoped_writer
MaxReads == 4       \* read() calls on the memory-map file that return data

-----------------------------------------------------------------------------
(* memory/header.h *)

Static == "Static"
Mmap == "Mmap"
Ignorable == "Ignorable"
Duration == {Static, Mmap, Ignorable}

\* static_assert(sizeof (header) == 8, ...)
HeaderSize == 8

NullPtr == 0

\* std::size_t arithmetic is modulo 2^64.  The checker's integers are 32 bits
\* wide, so the modulus is 2^30: every size and address of the model is far
\* below it, and the one wrap the code can make (a negative difference) wraps
\* here exactly as it does at 64 bits, to a value above every request.
SizeTMod == 2^30

SizeT(x) == x % SizeTMod

\* mark(): writes h->duration at the unmarked address, returns q + sizeof (header)
mark(unmarked_) == unmarked_ + HeaderSize

WriteHeader(h, unmarked_, d) ==
    [a \in (DOMAIN h) \cup {unmarked_} |-> IF a = unmarked_ THEN d ELSE h[a]]

unmarked(marked) == marked - HeaderSize

\* duration(): reads the header that precedes a marked pointer
duration(h, marked) == h[unmarked(marked)]

-----------------------------------------------------------------------------
(* The kernel: mmap(NULL, size, ..., MAP_PRIVATE | MAP_ANON) and munmap *)

PageSizes == {4096}

\* top of the mmap area; mappings are placed downwards from here
MmapTop == 64 * 1024 * 1024

End(m) == m.base + m.len

RECURSIVE Covered(_, _, _)
\* is every byte of [lo, hi) inside a live mapping of S?
Covered(S, lo, hi) ==
    IF lo >= hi THEN TRUE
    ELSE IF \E m \in S : m.base <= lo /\ lo < End(m)
         THEN LET m == CHOOSE x \in S : x.base <= lo /\ lo < End(x)
              IN Covered(S, End(m), hi)
         ELSE FALSE

Pieces(m, lo, hi) ==
    IF End(m) <= lo \/ m.base >= hi THEN {m}
    ELSE (IF m.base < lo THEN {[base |-> m.base, len |-> lo - m.base]} ELSE {})
         \cup (IF End(m) > hi THEN {[base |-> hi, len |-> End(m) - hi]} ELSE {})

RoundUp(len, ps) == ((len + ps - 1) \div ps) * ps

\* munmap(addr, length): EINVAL unless addr is page aligned and length > 0;
\* otherwise every page that intersects [addr, addr + length) is unmapped.
MunmapOk(addr, length, ps) == addr % ps = 0 /\ length > 0

munmap(S, addr, length, ps) ==
    IF MunmapOk(addr, length, ps)
    THEN UNION {Pieces(m, addr, addr + RoundUp(length, ps)) : m \in S}
    ELSE S

-----------------------------------------------------------------------------
(* memory/allocator.h *)

\* page_allocator<T>::max_size()
max_size == 1024 * 1024 * 10

page_count_for_size(size, page_size) ==
    (size + HeaderSize + page_size - 1) \div page_size

fits(current, page_size, page_offset, size) ==
    current # NullPtr /\ SizeT(page_size - page_offset - HeaderSize) >= size

full(page_offset, page_size) == page_offset = page_size

\* pack(): the storage it bumps to, and the cursor it leaves
pack(page_size, page_offset, page, size) ==
    LET storage == page + page_offset
        bumped == SizeT(page_offset + size + HeaderSize)
    IN  [storage |-> storage,
         page_offset |-> IF full(bumped, page_size) THEN 0 ELSE bumped,
         page |-> IF full(bumped, page_size) THEN NullPtr ELSE page]

\* the cursor allocate_pages_for_size leaves after a fresh mapping (lines 197-198)
offset_after_map(page_size, page_count, size) ==
    SizeT(page_size - SizeT(page_size * page_count - (size + HeaderSize))) % page_size

partial_after_map(page, page_size, page_count, page_offset) ==
    IF page_offset # 0 THEN page + page_size * (page_count - 1) ELSE NullPtr

\* request sizes in bytes tried on an instance: around the tail a small request
\* leaves, around one page, and around max_size()
ReqBytes(ps) ==
    {ps - 17, ps - 16, ps - 11, ps - 9, ps - 8, ps - 7, ps, ps + 1, max_size}

\* request counts tried on an instance whose elements are e bytes wide
ReqCounts(e, ps) ==
    {0, 1, 2}
        \cup {b \div e : b \in {x \in ReqBytes(ps) : x % e = 0}}
        \cup {max_size \div e + 1}

ElemSizes == {1, 8}

\* the record kept of the last call: what was asked (op, n, T), whether the
\* kernel granted the mapping it needed (ok), whether the call returned at all,
\* what it returned, how many pages it mapped, and the cursor before and after
NoCall == [op |-> "none", n |-> 0, T |-> "none", ok |-> TRUE, ret |-> NullPtr,
           returned |-> TRUE, mapped |-> 0,
           cursor |-> <<NullPtr, 0>>, before |-> <<NullPtr, 0>>]

\* page_allocator<T>::allocate(n) -> allocate_pages_for_size(n * sizeof (T))
\* ok / gap: whether mmap succeeds and how far below the lowest mapping it maps
Allocate(n, ok, gap) ==
    /\ ~fault
    /\ Len(allocs) < MaxAllocs
    /\ LET size == SizeT(n * sizeofT)
           before == <<partial_page_, page_offset_>>
       IN
       IF n = 0
       THEN /\ last' = [NoCall EXCEPT !.op = "allocate", !.n = n,
                            !.cursor = before, !.before = before]
            /\ UNCHANGED <<partial_page_, page_offset_, vm, low, header, allocs, fault>>
       ELSE IF fits(partial_page_, page_size_, page_offset_, size)
       THEN LET pk == pack(page_size_, page_offset_, partial_page_, size)
            IN  IF Covered(vm, pk.storage, pk.storage + HeaderSize)
                THEN /\ partial_page_' = pk.page
                     /\ page_offset_' = pk.page_offset
                     /\ header' = WriteHeader(header, pk.storage, Ignorable)
                     /\ allocs' = Append(allocs,
                            [p |-> mark(pk.storage), n |-> n, bytes |-> size,
                             base |-> NullPtr, pages |-> 0])
                     /\ last' = [NoCall EXCEPT !.op = "allocate", !.n = n,
                                     !.ret = mark(pk.storage),
                                     !.cursor = <<pk.page, pk.page_offset>>,
                                     !.before = before]
                     /\ UNCHANGED <<vm, low, fault>>
                ELSE \* mark() stores the header into memory nobody mapped
                     /\ fault' = TRUE
                     /\ partial_page_' = pk.page
                     /\ page_offset_' = pk.page_offset
                     /\ last' = [NoCall EXCEPT !.op = "allocate", !.n = n,
                                     !.returned = FALSE,
                                     !.cursor = <<pk.page, pk.page_offset>>,
                                     !.before = before]
                     /\ UNCHANGED <<vm, low, header, allocs>>
       ELSE LET page_count == page_count_for_size(size, page_size_)
                page == low - gap * page_size_ - page_size_ * page_count
                off == offset_after_map(page_size_, page_count, size)
                part == partial_after_map(page, page_size_, page_count, off)
            IN  IF ok
                THEN /\ vm' = vm \cup {[base |-> page, len |-> page_size_ * page_count]}
                     /\ low' = page
                     /\ page_offset_' = off
                     /\ partial_page_' = part
                     /\ header' = WriteHeader(header, page, Mmap)
                     /\ allocs' = Append(allocs,
                            [p |-> mark(page), n |-> n, bytes |-> size,
                             base |-> page, pages |-> page_count])
                     /\ last' = [NoCall EXCEPT !.op = "allocate", !.n = n,
                                     !.ret = mark(page), !.mapped = page_count,
                                     !.cursor = <<part, off>>, !.before = before]
                     /\ UNCHANGED fault
                ELSE /\ last' = [NoCall EXCEPT !.op = "allocate", !.n = n,
                                     !.ok = FALSE,
                                     !.cursor = before, !.before = before]
                     /\ UNCHANGED <<partial_page_, page_offset_, vm, low, header,
                                    allocs, fault>>
    /\ UNCHANGED <<page_size_, sizeofT, storages, munmaps, call_count,
                   static_storage, new_checks_null>>
    /\ UNCHANGED nonAllocVars

\* page_allocator<T>::deallocate(p, size): munmap(unmarked(p), page_count_for_size(size))
deallocate(p, size, by) ==
    LET addr == unmarked(p)
        length == page_count_for_size(size, page_size_)
    IN  /\ munmaps' = Append(munmaps,
                [addr |-> addr, length |-> length, by |-> by,
                 tag |-> duration(header, p), p |-> p,
                 ok |-> MunmapOk(addr, length, page_size_)])
        /\ vm' = munmap(vm, addr, length, page_size_)

\* a caller hands a pointer it got from allocate(n) back with deallocate(p, n)
Deallocate(i) ==
    /\ ~fault
    /\ i \in 1..Len(allocs)
    /\ Len(munmaps) < MaxUnmaps
    /\ deallocate(allocs[i].p, allocs[i].n, "deallocate")
    /\ last' = [NoCall EXCEPT !.op = "deallocate", !.n = allocs[i].n,
                    !.ret = allocs[i].p,
                    !.cursor = <<partial_page_, page_offset_>>,
                    !.before = <<partial_page_, page_offset_>>]
    /\ UNCHANGED <<partial_page_, page_offset_, page_size_, sizeofT, low, header,
                   allocs, storages, fault, call_count, static_storage,
                   new_checks_null>>
    /\ UNCHANGED nonAllocVars

-----------------------------------------------------------------------------
(* memory/allocate.h *)

\* the element types allocate_storage<T>() is instantiated with
StorageTypes == {"small", "large"}

SizeOf(T) == IF T = "small" THEN 24 ELSE 5000

\* &storage of make_function_scoped_static_byte_array<T>: one array per type,
\* in the image's data segment, outside every mapping of the allocator
StaticAddr(T) == IF T = "small" THEN 65536 + 24 ELSE 131072 + 24

IsStaticSlot(p) == \E T \in StorageTypes : p = mark(StaticAddr(T))

\* allocate_storage<T>(): a page_allocator<T> local to the call, allocate(1),
\* placement new on what it returns, get_static_storage<T>() when that is null
AllocateStorage(T, ok, gap) ==
    /\ ~fault
    /\ Len(storages) < MaxStorages
    /\ LET size == SizeT(1 * SizeOf(T))
           page_count == page_count_for_size(size, page_size_)
           page == low - gap * page_size_ - page_size_ * page_count
           call == [NoCall EXCEPT !.op = "allocate_storage", !.n = 1, !.T = T,
                        !.ok = ok]
       IN
       IF ok
       THEN /\ vm' = vm \cup {[base |-> page, len |-> page_size_ * page_count]}
            /\ low' = page
            /\ header' = WriteHeader(header, page, Mmap)
            /\ storages' = Append(storages,
                    [T |-> T, p |-> mark(page), base |-> page, pages |-> page_count])
            /\ last' = [call EXCEPT !.ret = mark(page), !.mapped = page_count]
            /\ UNCHANGED <<fault, call_count, static_storage>>
       ELSE IF new_checks_null
       THEN \* storage == nullptr: make_function_scoped_static_byte_array<T>()
            /\ call_count' = [call_count EXCEPT ![T] = @ + 1]
            /\ static_storage' = [static_storage EXCEPT ![T] = 0]
            /\ header' = WriteHeader(header, StaticAddr(T), Static)
            /\ storages' = Append(storages,
                    [T |-> T, p |-> mark(StaticAddr(T)), base |-> NullPtr, pages |-> 0])
            /\ last' = [call EXCEPT !.ret = mark(StaticAddr(T))]
            /\ UNCHANGED <<vm, low, fault>>
       ELSE \* T() is constructed at address 0
            /\ fault' = TRUE
            /\ last' = [call EXCEPT !.returned = FALSE]
            /\ UNCHANGED <<vm, low, header, storages, call_count, static_storage>>
    /\ UNCHANGED <<partial_page_, page_offset_, page_size_, sizeofT, allocs,
                   munmaps, new_checks_null>>
    /\ UNCHANGED nonAllocVars

\* the holder of a static slot stores a value of its own into it
StoreValue(k, v) ==
    /\ ~fault
    /\ k \in 1..Len(storages)
    /\ IsStaticSlot(storages[k].p)
    /\ static_storage[storages[k].T] # v
    /\ static_storage' = [static_storage EXCEPT ![storages[k].T] = v]
    /\ UNCHANGED <<partial_page_, page_offset_, page_size_, sizeofT, vm, low,
                   header, allocs, storages, munmaps, last, fault, call_count,
                   new_checks_null>>
    /\ UNCHANGED nonAllocVars

\* release_storage(storage): deallocate only what the header says was mmap-ed
ReleaseStorage(k) ==
    /\ ~fault
    /\ k \in 1..Len(storages)
    /\ Len(munmaps) < MaxUnmaps
    /\ LET storage == storages[k].p
           call == [NoCall EXCEPT !.op = "release_storage", !.T = storages[k].T,
                        !.ret = storage]
       IN
       IF ~IsStaticSlot(storage) /\ ~Covered(vm, unmarked(storage), storage)
       THEN \* duration() reads a header in a page that is no longer mapped
            /\ fault' = TRUE
            /\ last' = [call EXCEPT !.returned = FALSE]
            /\ UNCHANGED <<vm, munmaps>>
       ELSE IF storage # NullPtr /\ duration(header, storage) = Mmap
       THEN /\ deallocate(storage, SizeOf(storages[k].T), "release_storage")
            /\ last' = call
            /\ UNCHANGED fault
       ELSE /\ last' = call
            /\ UNCHANGED <<vm, munmaps, fault>>
    /\ UNCHANGED <<partial_page_, page_offset_, page_size_, sizeofT, low, header,
                   allocs, storages, call_count, static_storage, new_checks_null>>
    /\ UNCHANGED nonAllocVars

-----------------------------------------------------------------------------
(* uint64_t: four 16-bit limbs, least significant first *)

LimbBase == 2^16

U64(n) == <<n % LimbBase, (n \div LimbBase) % LimbBase, 0, 0>>

IsZero(x) == x = <<0, 0, 0, 0>>

\* x / b and x % b for a small b: long division from the top limb down
DivMod(x, b) ==
    LET c4 == x[4]
        c3 == (c4 % b) * LimbBase + x[3]
        c2 == (c3 % b) * LimbBase + x[2]
        c1 == (c2 % b) * LimbBase + x[1]
    IN  [q |-> <<c1 \div b, c2 \div b, c3 \div b, c4 \div b>>, r |-> c1 % b]

\* x * m + a for small m and a: the low 64 bits and what was carried out of them
MulAdd(x, m, a) ==
    LET c1 == x[1] * m + a
        c2 == x[2] * m + c1 \div LimbBase
        c3 == x[3] * m + c2 \div LimbBase
        c4 == x[4] * m + c3 \div LimbBase
    IN  [v |-> <<c1 % LimbBase, c2 % LimbBase, c3 % LimbBase, c4 % LimbBase>>,
         carry |-> c4 \div LimbBase]

Times(x, m) == MulAdd(x, m, 0).v
Plus(x, a) == MulAdd(x, 1, a).v

\* x - 1 modulo 2^64
Minus1(x) ==
    IF x[1] > 0 THEN <<x[1] - 1, x[2], x[3], x[4]>>
    ELSE IF x[2] > 0 THEN <<LimbBase - 1, x[2] - 1, x[3], x[4]>>
    ELSE IF x[3] > 0 THEN <<LimbBase - 1, LimbBase - 1, x[3] - 1, x[4]>>
    ELSE IF x[4] > 0 THEN <<LimbBase - 1, LimbBase - 1, LimbBase - 1, x[4] - 1>>
    ELSE <<LimbBase - 1, LimbBase - 1, LimbBase - 1, LimbBase - 1>>

\* 2^k for 0 <= k < 64
Pow2(k) == [i \in 1..4 |-> IF i = k \div 16 + 1 THEN 2^(k % 16) ELSE 0]

UINT64_MAX == Minus1(U64(0))
LLONG_MAX == Minus1(Pow2(63))

\* does x, read as a long long, lie above LLONG_MAX (is its sign bit set)?
AboveLLongMax(x) == x[4] >= 2^15

-----------------------------------------------------------------------------
(* crashlytics/detail/lexical_cast.h *)

\* characters are one-character strings; a text is a sequence of them
DecimalAlphabet == <<"0", "1", "2", "3", "4", "5", "6", "7", "8", "9">>

\* const char hex[] = "0123456789abcdef"
hex == <<"0", "1", "2", "3", "4", "5", "6", "7", "8", "9",
         "a", "b", "c", "d", "e", "f">>

RECURSIVE Reverse(_)
Reverse(t) == IF t = <<>> THEN <<>> ELSE Append(Reverse(Tail(t)), Head(t))

RECURSIVE EmitDigits(_, _, _)
\* while (t != 0) { buffer[length++] = alphabet(t % base); t /= base; }
EmitDigits(t, base, alphabet) ==
    IF IsZero(t) THEN <<>>
    ELSE LET d == DivMod(t, base)
         IN  <<alphabet[d.r + 1]>> \o EmitDigits(d.q, base, alphabet)

\* the conversion without its std::reverse: least significant digit first
lexical_cast_unreversed(t, base, alphabet, default_value) ==
    IF IsZero(t) THEN default_value
    ELSE EmitDigits(t, base, alphabet)

\* lexical_cast(t, buffer, base, alphabet, default_value, default_value_length):
\* the characters it leaves in the buffer (the length it returns is their number)
lexical_cast(t, base, alphabet, default_value) ==
    IF IsZero(t) THEN default_value
    ELSE Reverse(EmitDigits(t, base, alphabet))

\* lexical_cast(T t, char* buffer)
lexical_cast_decimal(t) == lexical_cast(t, 10, DecimalAlphabet, <<"0">>)

\* lexical_cast_hex(T t, char* buffer)
lexical_cast_hex(t) ==
    lexical_cast(t, 16, hex, <<"0", "0", "0", "0", "0", "0", "0", "0">>)

IsDigit(c) == c \in {DecimalAlphabet[i] : i \in 1..10}

DigitValue(c) == (CHOOSE i \in 1..10 : DecimalAlphabet[i] = c) - 1

RECURSIVE Accumulate(_, _, _, _)
\* the digit loop of strtoll(str, NULL, 10) over the characters from index p
\* on; `over` records that the value left the range of long long
Accumulate(str, p, acc, over) ==
    IF p > Len(str) \/ ~IsDigit(str[p])
    THEN [v |-> acc, over |-> over]
    ELSE LET next == MulAdd(acc, 10, DigitValue(str[p]))
         IN  Accumulate(str, p + 1, next.v,
                        over \/ next.carry # 0 \/ AboveLLongMax(next.v))

\* integral_converter<8>::convert(str) == atoll(str), for str pointing at
\* index p of the (NUL-terminated) text.  Out of range atoll is undefined: a
\* C library that forwards to strtoll returns LLONG_MAX ("clamp"), one that
\* accumulates in place returns the value modulo 2^64 ("wrap").
atoll(str, p, overflow) ==
    LET r == Accumulate(str, p, U64(0), FALSE)
    IN  IF r.over /\ overflow = "clamp" THEN LLONG_MAX ELSE r.v

\* while ((*p < '0' || *p > '9') && distance(buffer, p) < length) ++p;
\* p is a 1-based index: distance(buffer, p) = p - 1; the loop stops at the
\* first index from p on that holds a digit or lies length characters in
SkipNonDigits(buffer, p, length) ==
    LET stops == {i \in p..(length + 1) : ~(i - 1 < length /\ ~IsDigit(buffer[i]))}
    IN  IF p > length + 1 THEN p
        ELSE CHOOSE i \in stops : \A j \in stops : i <= j

\* lexical_cast<uint64_t>(buffer, length)
lexical_cast_integral(buffer, length, overflow) ==
    atoll(buffer, SkipNonDigits(buffer, 1, length), overflow)

\* the values converted: zero, one, UINT64_MAX, LLONG_MAX and its successor,
\* and the powers of two (minus and plus one) at the exponents below
CastExponents == {1, 2, 3, 4, 5, 8, 10, 15, 16, 17, 31, 32, 33, 47, 48, 62, 63}

CastValues ==
    {U64(0), U64(1), UINT64_MAX, LLONG_MAX}
        \cup {Pow2(k) : k \in CastExponents}
        \cup {Minus1(Pow2(k)) : k \in CastExponents}
        \cup {Plus(Pow2(k), 1) : k \in CastExponents}

CastIdle ==
    /\ cast_value = U64(0)
    /\ cast_buffer = <<>>
    /\ cast_length = 0
    /\ cast_result = U64(0)
    /\ cast_pc = "start"
    /\ atoll_overflow = "clamp"

\* std::size_t length = lexical_cast(value, buffer);
EncodeDecimal ==
    /\ cast_pc = "start"
    /\ cast_buffer' = lexical_cast_decimal(cast_value)
    /\ cast_length' = Len(lexical_cast_decimal(cast_value))
    /\ cast_pc' = "decimal"
    /\ UNCHANGED <<cast_value, cast_result, atoll_overflow>>
    /\ UNCHANGED nonCastVars

\* std::size_t length = lexical_cast_hex(value, buffer);
EncodeHex ==
    /\ cast_pc = "start"
    /\ cast_buffer' = lexical_cast_hex(cast_value)
    /\ cast_length' = Len(lexical_cast_hex(cast_value))
    /\ cast_pc' = "hex"
    /\ UNCHANGED <<cast_value, cast_result, atoll_overflow>>
    /\ UNCHANGED nonCastVars

\* uint64_t back = lexical_cast<uint64_t>(buffer, length);
Decode ==
    /\ cast_pc \in {"decimal", "hex"}
    /\ cast_result' = lexical_cast_integral(cast_buffer, cast_length, atoll_overflow)
    /\ cast_pc' = IF cast_pc = "decimal" THEN "decoded_decimal" ELSE "decoded_hex"
    /\ UNCHANGED <<cast_value, cast_buffer, cast_length, atoll_overflow>>
    /\ UNCHANGED nonCastVars

-----------------------------------------------------------------------------
(* crashlytics/detail/scoped_writer.h, src/detail/scoped_writer.cpp *)

\* enum Delimiter
Comma == "Comma"
None == "None"
NewLine == "NewLine"
Delimiter == {Comma, None, NewLine}

\* a null `const char* key`
NoKey == <<>>

\* impl::write(int fd, char value)
write_char(value) == <<value>>

\* impl::write(int fd, uint64_t value): char buffer[20], lexical_cast, write
write_uint64(value) == lexical_cast_decimal(value)

\* impl::write_sequence(int fd, const char* value)
write_sequence(value) == value

\* impl::write(int fd, bool value)
write_bool(value) ==
    write_sequence(IF value THEN <<"t", "r", "u", "e">>
                            ELSE <<"f", "a", "l", "s", "e">>)

\* impl::write(int fd, const char* value): quote, the value less one trailing
\* newline, quote
write_string(value) ==
    LET length == Len(value)
        kept == IF value[length] = "\n" THEN length - 1 ELSE length
    IN  <<"\"">> \o SubSeq(value, 1, kept) \o <<"\"">>

\* impl::write(int fd, const char* value, std::size_t length)
write_raw(value, length) == SubSeq(value, 1, length)

\* switch (delimiter) of scoped_writer::write and of ~wrapped
DelimiterBytes(delimiter) ==
    CASE delimiter = Comma -> write_char(",")
      [] delimiter = NewLine -> write_char("\n")
      [] delimiter = None -> <<>>

\* wrapped::wrapped(key, open_char, close_char, delimiter, writer)
wrapped_ctor(key, open_char) ==
    (IF key # NoKey THEN write_string(key) \o write_char(":") ELSE <<>>)
        \o write_char(open_char)

\* wrapped::~wrapped()
wrapped_dtor(close_, delimiter_) == write_char(close_) \o DelimiterBytes(delimiter_)

\* scoped_writer::write(key, value, delimiter), value already rendered
write_key_value(key, value, delimiter) ==
    write_string(key) \o write_char(":") \o value \o DelimiterBytes(delimiter)

RECURSIVE write_rest(_)
\* while (first != last) { impl::write(fd_, ','); func(*first++, *this); }
write_rest(items) ==
    IF items = <<>> THEN <<>>
    ELSE write_char(",") \o write_uint64(Head(items)) \o write_rest(Tail(items))

RECURSIVE write_each_then_comma(_)
\* a loop that writes the comma after every item, the last one included
write_each_then_comma(items) ==
    IF items = <<>> THEN <<>>
    ELSE write_uint64(Head(items)) \o write_char(",")
             \o write_each_then_comma(Tail(items))

\* the body of write_array between the construction and the destruction of
\* `outer`, with func = [](item, writer) { writer.write(item); }
write_array_items(items) ==
    IF items = <<>> THEN <<>>
    ELSE write_uint64(Head(items)) \o write_rest(Tail(items))

\* the positions of the delimiter byte at the end of `bytes` appended to out
DelimiterAt(out, bytes, delimiter) ==
    IF delimiter = None THEN {} ELSE {Len(out) + Len(bytes)}

\* the bracket pairs the callers construct `wrapped` with
Brackets == {<<"{", "}">>, <<"[", "]">>}

\* what the writer of the model is given to write
WriterKeys == {<<"k">>}
WrittenValues == {write_string(<<"v", "\n">>)}
WrittenArrays == {<<>>, <<U64(1), U64(2)>>}

WriterLive == fd_log = <<>>

\* scoped_writer::wrapped object(key, open, close, delimiter, writer);
Wrap(key, bracket, delimiter) ==
    /\ WriterLive
    /\ ops < MaxOps
    /\ fd_out' = fd_out \o wrapped_ctor(key, bracket[1])
    /\ scopes' = Append(scopes, [close_ |-> bracket[2], delimiter_ |-> delimiter])
    /\ ops' = ops + 1
    /\ UNCHANGED <<fd_log, asked>>
    /\ UNCHANGED nonWriterVars

\* the innermost `wrapped` goes out of scope (end of block, return, exception)
Unwrap ==
    /\ WriterLive
    /\ scopes # <<>>
    /\ LET top == scopes[Len(scopes)]
           bytes == wrapped_dtor(top.close_, top.delimiter_)
       IN  /\ fd_out' = fd_out \o bytes
           /\ asked' = asked \cup DelimiterAt(fd_out, bytes, top.delimiter_)
    /\ scopes' = SubSeq(scopes, 1, Len(scopes) - 1)
    /\ UNCHANGED <<fd_log, ops>>
    /\ UNCHANGED nonWriterVars

\* writer.write(key, value, delimiter);
WriteKeyValue(key, value, delimiter) ==
    /\ WriterLive
    /\ ops < MaxOps
    /\ LET bytes == write_key_value(key, value, delimiter)
       IN  /\ fd_out' = fd_out \o bytes
           /\ asked' = asked \cup DelimiterAt(fd_out, bytes, delimiter)
    /\ ops' = ops + 1
    /\ UNCHANGED <<fd_log, scopes>>
    /\ UNCHANGED nonWriterVars

\* writer.write_array(key, first, last, func, delimiter);
WriteArray(key, items, delimiter) ==
    /\ WriterLive
    /\ ops < MaxOps
    /\ LET bytes == wrapped_ctor(key, "[") \o write_array_items(items)
                        \o wrapped_dtor("]", delimiter)
       IN  /\ fd_out' = fd_out \o bytes
           /\ asked' = asked \cup DelimiterAt(fd_out, bytes, delimiter)
    /\ ops' = ops + 1
    /\ UNCHANGED <<fd_log, scopes>>
    /\ UNCHANGED nonWriterVars

\* what ::fsync and ::close return
SyscallResults == {0, -1}

\* a destructor that gives up on the descriptor when the flush failed
scoped_writer_dtor_giving_up(fsync_result, close_result) ==
    IF fsync_result = -1
    THEN <<[call |-> "fsync", ret |-> fsync_result]>>
    ELSE <<[call |-> "fsync", ret |-> fsync_result],
           [call |-> "close", ret |-> close_result]>>

\* scoped_writer::~scoped_writer(): the system calls made on fd_, with what
\* they returned; both branches on -1 are empty
scoped_writer_dtor(fsync_result, close_result) ==
    <<[call |-> "fsync", ret |-> fsync_result],
      [call |-> "close", ret |-> close_result]>>

\* scoped_writer::~scoped_writer(): fsync, close, failures ignored.  The
\* `wrapped` objects hold a reference to the writer and are gone before it.
DestroyWriter(fsync_result, close_result) ==
    /\ WriterLive
    /\ scopes = <<>>
    /\ fd_log' = scoped_writer_dtor(fsync_result, close_result)
    /\ UNCHANGED <<fd_out, scopes, asked, ops>>
    /\ UNCHANGED nonWriterVars

WriterIdle ==
    /\ fd_out = <<>>
    /\ fd_log = <<>>
    /\ scopes = <<>>
    /\ asked = {}
    /\ ops = 0

-----------------------------------------------------------------------------
(* libcrashlytics-common/src/device_info.cpp, libcrashlytics/src/handler/device_info.cpp *)

Key_orientation ==
    <<"o", "r", "i", "e", "n", "t", "a", "t", "i", "o", "n">>

Key_total_physical_memory ==
    <<"t", "o", "t", "a", "l", "_", "p", "h", "y", "s", "i", "c", "a", "l",
      "_", "m", "e", "m", "o", "r", "y">>

Key_total_internal_storage ==
    <<"t", "o", "t", "a", "l", "_", "i", "n", "t", "e", "r", "n", "a", "l",
      "_", "s", "t", "o", "r", "a", "g", "e">>

Key_available_physical_memory ==
    <<"a", "v", "a", "i", "l", "a", "b", "l", "e", "_", "p", "h", "y", "s",
      "i", "c", "a", "l", "_", "m", "e", "m", "o", "r", "y">>

Key_available_internal_storage ==
    <<"a", "v", "a", "i", "l", "a", "b", "l", "e", "_", "i", "n", "t", "e",
      "r", "n", "a", "l", "_", "s", "t", "o", "r", "a", "g", "e">>

Key_battery ==
    <<"b", "a", "t", "t", "e", "r", "y">>

Key_proximity_enabled ==
    <<"p", "r", "o", "x", "i", "m", "i", "t", "y", "_", "e", "n", "a", "b",
      "l", "e", "d">>

\* ACONFIGURATION_ORIENTATION_ANY
orientation == U64(0)

\* the seven writer.write(key, value, delimiter) calls, in program order
DeviceInfoMembers ==
    << [key |-> Key_orientation, value |-> write_uint64(orientation),
        delimiter |-> Comma],
       [key |-> Key_total_physical_memory, value |-> write_uint64(di_memory[1]),
        delimiter |-> Comma],
       [key |-> Key_total_internal_storage, value |-> write_uint64(di_storage[1]),
        delimiter |-> Comma],
       [key |-> Key_available_physical_memory, value |-> write_uint64(di_memory[2]),
        delimiter |-> Comma],
       [key |-> Key_available_internal_storage, value |-> write_uint64(di_storage[2]),
        delimiter |-> Comma],
       [key |-> Key_battery, value |-> write_uint64(di_battery),
        delimiter |-> Comma],
       [key |-> Key_proximity_enabled, value |-> write_bool(proximity_sensor_enabled),
        delimiter |-> None] >>

\* scoped_writer writer(fd); scoped_writer::wrapped object('{', '}', None, writer);
DeviceInfoBegin ==
    /\ di_pc = 0
    /\ fd_out' = fd_out \o wrapped_ctor(NoKey, "{")
    /\ scopes' = Append(scopes, [close_ |-> "}", delimiter_ |-> None])
    /\ di_pc' = 1
    /\ UNCHANGED <<fd_log, asked, ops>>
    /\ UNCHANGED <<di_memory, di_storage, di_battery, proximity_sensor_enabled>>
    /\ UNCHANGED nonDeviceVars

\* writer.write(<key>, <value>, <delimiter>);   (the di_pc-th of the seven)
DeviceInfoWrite ==
    /\ di_pc \in 1..Len(DeviceInfoMembers)
    /\ LET m == DeviceInfoMembers[di_pc]
           bytes == write_key_value(m.key, m.value, m.delimiter)
       IN  /\ fd_out' = fd_out \o bytes
           /\ asked' = asked \cup DelimiterAt(fd_out, bytes, m.delimiter)
    /\ di_pc' = di_pc + 1
    /\ ops' = ops + 1
    /\ UNCHANGED <<fd_log, scopes>>
    /\ UNCHANGED <<di_memory, di_storage, di_battery, proximity_sensor_enabled>>
    /\ UNCHANGED nonDeviceVars

\* end of the function body: ~wrapped() of `object`
DeviceInfoEndObject ==
    /\ di_pc = Len(DeviceInfoMembers) + 1
    /\ LET top == scopes[Len(scopes)]
           bytes == wrapped_dtor(top.close_, top.delimiter_)
       IN  /\ fd_out' = fd_out \o bytes
           /\ asked' = asked \cup DelimiterAt(fd_out, bytes, top.delimiter_)
    /\ scopes' = SubSeq(scopes, 1, Len(scopes) - 1)
    /\ di_pc' = di_pc + 1
    /\ UNCHANGED <<fd_log, ops>>
    /\ UNCHANGED <<di_memory, di_storage, di_battery, proximity_sensor_enabled>>
    /\ UNCHANGED nonDeviceVars

\* then ~scoped_writer() of `writer`
DeviceInfoEndWriter(fsync_result, close_result) ==
    /\ di_pc = Len(DeviceInfoMembers) + 2
    /\ fd_log' = fd_log \o scoped_writer_dtor(fsync_result, close_result)
    /\ di_pc' = di_pc + 1
    /\ UNCHANGED <<fd_out, scopes, asked, ops>>
    /\ UNCHANGED <<di_memory, di_storage, di_battery, proximity_sensor_enabled>>
    /\ UNCHANGED nonDeviceVars

DeviceInfoDone == di_pc = Len(DeviceInfoMembers) + 3

\* 10^9 * n, for the byte counts of the scenarios
Giga(n) == Times(Times(Times(U64(n), 1000), 1000), 1000)

\* { total, available } pairs memory_statistics() and
\* internal_storage_statistics() are taken to return, and battery levels
MemoryStatistics ==
    {<<Giga(8), Giga(2)>>, <<U64(16777216), U64(4194304)>>, <<UINT64_MAX, U64(1)>>}
StorageStatistics == {<<Giga(50), Giga(10)>>, <<U64(0), U64(0)>>}
BatteryLevels == {U64(0), U64(73), U64(100)}

DeviceIdle ==
    /\ di_pc = 0
    /\ di_memory = <<U64(0), U64(0)>>
    /\ di_storage = <<U64(0), U64(0)>>
    /\ di_battery = U64(0)
    /\ proximity_sensor_enabled = FALSE

-----------------------------------------------------------------------------
(* handler/detail/fgets_safe.h, system_info.h: meminfo *)

\* the terminating character of C strings and of zeroed buffers
NUL == "\\0"

Zeros(n) == [i \in 1..n |-> NUL]

\* std::strchr(line, c): the 1-based index of the first c, 0 when there is none
StrChr(line, c) ==
    IF \E i \in 1..Len(line) : line[i] = c
    THEN CHOOSE i \in 1..Len(line) : line[i] = c /\ \A j \in 1..(i - 1) : line[j] # c
    ELSE 0

\* find_line_break(line): one past the first '\n', else the length of the string
find_line_break(line) ==
    IF StrChr(line, "\n") # 0 THEN StrChr(line, "\n")
    ELSE IF StrChr(line, NUL) # 0 THEN StrChr(line, NUL) - 1
    ELSE 0

\* the file offset left where the read began
rewound_nowhere(current, line_bound, offset) == current - line_bound

\* ::lseek(fd, current - line_bound + offset, SEEK_SET)
rewound(current, line_bound, offset) == current - line_bound + offset

\* fgets_safe(fd, storage, storage_size): file is what fd reads, pos its offset;
\* read() hands over all that is left, up to the count asked for.
\* Returns the storage (NullPtr-like ok = FALSE at end of file) and the offset
\* the descriptor is left at.
\* bytes is what read() returns: -1, 0 at end of file, or a count of bytes
fgets_safe_read(file, pos, storage_size, bytes) ==
    LET size == storage_size - 1
        read_ == SubSeq(file, pos + 1, pos + bytes) \o Zeros(storage_size - bytes)
        line_bound == IF size < bytes THEN size ELSE bytes
        line_break == find_line_break(read_)
        offset == IF line_break # 0 THEN line_break ELSE size
        kept == SubSeq(read_, 1, offset) \o Zeros(storage_size - offset)
        storage == IF kept[offset] = "\n" THEN [kept EXCEPT ![offset] = "|"] ELSE kept
    IN  IF bytes = -1 \/ bytes = 0
        THEN [ok |-> FALSE, storage |-> Zeros(storage_size), pos |-> pos]
        ELSE [ok |-> TRUE, storage |-> storage,
              pos |-> rewound(pos + bytes, line_bound, offset)]

\* fgets_safe on a descriptor whose read() hands over all that is asked for
fgets_safe(file, pos, storage_size) ==
    LET size == storage_size - 1
        bytes == IF Len(file) - pos < size THEN Len(file) - pos ELSE size
    IN  fgets_safe_read(file, pos, storage_size, bytes)

\* strncmp(buffer, what, n) == 0
StrNEq(buffer, what, n) ==
    \A i \in 1..n :
        /\ i <= Len(buffer)
        /\ buffer[i] = (IF i <= Len(what) THEN what[i] ELSE NUL)

RECURSIVE SkipSpaces(_, _)
\* while (*str == ' ') ++str;
SkipSpaces(buffer, p) ==
    IF buffer[p] = " " THEN SkipSpaces(buffer, p + 1) ELSE p

\* parse_kb_value(str, length), str pointing at index p of buffer
parse_kb_value(buffer, p, length, overflow) ==
    LET q == SkipSpaces(buffer, p)
    IN  lexical_cast_integral(SubSeq(buffer, q, Len(buffer)), length, overflow)

\* char buffer[256] of read_memory_statistics_from_proc_fragment
ProcBufferSize == 256

RECURSIVE ScanForFragment(_, _, _)
\* while ((p = fgets_safe(...)) != nullptr && strncmp(buffer, what, N - 1) != 0) {}
ScanForFragment(file, pos, what) ==
    LET r == fgets_safe(file, pos, ProcBufferSize)
    IN  IF ~r.ok \/ StrNEq(r.storage, what, Len(what)) THEN r
        ELSE ScanForFragment(file, r.pos, what)

\* read_memory_statistics_from_proc_fragment(fd, what); N = sizeof what counts
\* the terminating NUL of the literal, so buffer + N is index N + 1 = Len(what) + 2
\* parse_kb_value keeps the length it was given after skipping spaces, so a
\* line without a digit behind the spaces is scanned past the end of buffer,
\* by as many bytes as spaces were skipped: beyond is what the stack holds there
read_memory_statistics_from_proc_fragment(file, pos, what, overflow, beyond) ==
    LET N == Len(what) + 1
        r == ScanForFragment(file, pos, what)
    IN  IF ~r.ok THEN U64(0)
        ELSE parse_kb_value(r.storage \o beyond, N + 1, ProcBufferSize - 1 - N, overflow)

\* the bytes that follow buffer on the stack: zeroes, or a byte that reads as a digit
StackBytes == {Zeros(8), <<"7">> \o Zeros(7)}

MemTotal_ == <<"M", "e", "m", "T", "o", "t", "a", "l", ":">>
MemFree_ == <<"M", "e", "m", "F", "r", "e", "e", ":">>

\* memory_statistics_from_sysconf(): what sysconf reports on the device
memory_statistics_from_sysconf == <<Giga(8), Giga(2)>>

\* uint64_t total = read_memory_statistics_from_proc_fragment(fd, "MemTotal:");
\* (the function ends with lseek(fd, 0, SEEK_SET))
MeminfoReadTotal ==
    /\ mi_pc = "start"
    /\ mi_lines.opened
    /\ mi_total' = read_memory_statistics_from_proc_fragment(
                       mi_file, mi_pos, MemTotal_, atoll_overflow, mi_lines.beyond)
    /\ mi_pos' = 0
    /\ mi_pc' = "total"
    /\ UNCHANGED <<mi_file, mi_lines, mi_free, mi_result>>
    /\ UNCHANGED nonMeminfoVars

\* uint64_t free = read_memory_statistics_from_proc_fragment(fd, "MemFree:");
MeminfoReadFree ==
    /\ mi_pc = "total"
    /\ mi_free' = read_memory_statistics_from_proc_fragment(
                      mi_file, mi_pos, MemFree_, atoll_overflow, mi_lines.beyond)
    /\ mi_pos' = 0
    /\ mi_pc' = "free"
    /\ UNCHANGED <<mi_file, mi_lines, mi_total, mi_result>>
    /\ UNCHANGED nonMeminfoVars

\* each member on its own: parsed when it is there, estimated when it is not
memory_statistics_from_proc_each(total, free) ==
    <<IF IsZero(total) THEN memory_statistics_from_sysconf[1] ELSE Times(total, 1024),
      IF IsZero(free) THEN memory_statistics_from_sysconf[2] ELSE Times(free, 1024)>>

\* return total == 0 || free == 0 ? memory_statistics_from_sysconf()
\*                                : make_pair(total * 1024, free * 1024);
memory_statistics_from_proc(total, free) ==
    IF IsZero(total) \/ IsZero(free)
    THEN memory_statistics_from_sysconf
    ELSE <<Times(total, 1024), Times(free, 1024)>>

MeminfoReturn ==
    /\ mi_pc = "free"
    /\ mi_result' = memory_statistics_from_proc(mi_total, mi_free)
    /\ mi_pc' = "done"
    /\ UNCHANGED <<mi_file, mi_lines, mi_pos, mi_total, mi_free>>
    /\ UNCHANGED nonMeminfoVars

\* memory_statistics(): managed is false, /proc/meminfo could not be opened
MemoryStatisticsUnopened ==
    /\ mi_pc = "start"
    /\ ~mi_lines.opened
    /\ mi_result' = memory_statistics_from_sysconf
    /\ mi_pc' = "done"
    /\ UNCHANGED <<mi_file, mi_lines, mi_pos, mi_total, mi_free>>
    /\ UNCHANGED nonMeminfoVars

\* the kB values the file carries: their digits and their value
KbValues ==
    {[digits |-> <<"1", "6", "3", "8", "4">>, n |-> 16384],
     [digits |-> <<"4", "0", "9", "6">>, n |-> 4096],
     [digits |-> <<"2", "5">>, n |-> 25],
     [digits |-> <<"0">>, n |-> 0]}

\* padding spaces between the colon and the digits
Paddings == {0, 1, 4}

Spaces(n) == [i \in 1..n |-> " "]

KbLine(what, pad, value) ==
    what \o Spaces(pad) \o value.digits \o <<" ", "k", "B", "\n">>

OtherLine ==
    <<"B", "u", "f", "f", "e", "r", "s", ":", " ", " ", "1", "2", " ", "k", "B", "\n">>

\* where the two lines sit: T the MemTotal line, F the MemFree line, O another
Layouts ==
    {<<"T", "F">>, <<"F", "T">>, <<"O", "T", "O", "F", "O">>, <<"O", "F", "T">>,
     <<"O", "T">>, <<"F", "O">>, <<"O">>, <<>>}

RECURSIVE MeminfoText(_, _, _)
MeminfoText(layout, t, f) ==
    IF layout = <<>> THEN <<>>
    ELSE (CASE Head(layout) = "T" -> KbLine(MemTotal_, t.pad, t.value)
            [] Head(layout) = "F" -> KbLine(MemFree_, f.pad, f.value)
            [] OTHER -> OtherLine)
         \o MeminfoText(Tail(layout), t, f)

\* what read() may return at offset pos when asked for size bytes: an error,
\* 0 at the end of the file, else one byte or all that is there
ReadResults(file, pos, size) ==
    LET most == IF Len(file) - pos < size THEN Len(file) - pos ELSE size
    IN  {-1} \cup (IF most = 0 THEN {0} ELSE {1, most})

\* p = fgets_safe(fd, storage, storage_size), called until it returns nullptr
FgetsSafe(bytes) ==
    /\ fg_pc = "reading"
    /\ bytes \in ReadResults(fg_file, fg_pos, fg_size - 1)
    /\ LET r == fgets_safe_read(fg_file, fg_pos, fg_size, bytes)
       IN  /\ fg_pos' = r.pos
           /\ fg_calls' = Append(fg_calls,
                             [from |-> fg_pos, bytes |-> bytes, ok |-> r.ok,
                              storage |-> r.storage, to |-> r.pos])
           /\ fg_pc' = IF r.ok THEN "reading" ELSE "null"
    /\ UNCHANGED <<fg_file, fg_size>>
    /\ UNCHANGED nonFgetsVars

FgetsIdle ==
    /\ fg_file = <<>>
    /\ fg_size = 0
    /\ fg_pos = 0
    /\ fg_calls = <<>>
    /\ fg_pc = "reading"

MeminfoIdle ==
    /\ mi_file = <<>>
    /\ mi_lines = <<>>
    /\ mi_pos = 0
    /\ mi_total = U64(0)
    /\ mi_free = U64(0)
    /\ mi_result = <<U64(0), U64(0)>>
    /\ mi_pc = "start"

-----------------------------------------------------------------------------
(* handler/detail/system_info.h, handler/device_info.cpp: the memory map *)

\* default_maps_buffer_size()
default_maps_buffer_size == 1024

\* the file's bytes are numbered from 1, so that every byte is told from every
\* other and from the zeroes the buffer starts with
MapsFileOfLength(n) == [i \in 1..n |-> i]

MapsFileLengths ==
    {0, 1, default_maps_buffer_size - 1, default_maps_buffer_size,
     default_maps_buffer_size + 1, 2 * default_maps_buffer_size}

\* the byte counts read() may return when n bytes are left: all it can, or less
ReadCounts(n) ==
    LET most == IF n < default_maps_buffer_size THEN n ELSE default_maps_buffer_size
    IN  {k \in {1, most \div 2, most} : k >= 1 /\ k <= most}

\* scoped_writer writer(fd); then maps_entries(): managed_node_file managed("/proc/", pid, "/maps")
MapsOpen(ok) ==
    /\ maps_pc = "start"
    /\ maps_fd' = IF ok THEN 3 ELSE -1
    /\ maps_pc' = IF ok THEN "reading" ELSE "closing"
    /\ UNCHANGED <<maps_file, maps_pos, maps_buffer, maps_reads>>
    /\ UNCHANGED writerVars
    /\ UNCHANGED nonMapsVars

\* one turn of read_maps_list's loop with read() returning k > 0 bytes:
\* func(buffer, sizeof buffer) -> writer.write(buffer, buffer_size)
MapsReadSome(k) ==
    /\ maps_pc = "reading"
    /\ maps_reads < MaxReads
    /\ k \in ReadCounts(Len(maps_file) - maps_pos)
    /\ LET filled == SubSeq(maps_file, maps_pos + 1, maps_pos + k)
                         \o SubSeq(maps_buffer, k + 1, default_maps_buffer_size)
       IN  /\ maps_buffer' = filled
           /\ fd_out' = fd_out \o write_raw(filled, default_maps_buffer_size)
    /\ maps_pos' = maps_pos + k
    /\ maps_reads' = maps_reads + 1
    /\ UNCHANGED <<maps_file, maps_fd, maps_pc>>
    /\ UNCHANGED <<fd_log, scopes, asked, ops>>
    /\ UNCHANGED nonMapsVars

\* read() returns 0 at the end of the file: the loop ends, ~managed_node_file
MapsReadEnd ==
    /\ maps_pc = "reading"
    /\ maps_pos = Len(maps_file)
    /\ maps_pc' = "closing"
    /\ UNCHANGED <<maps_file, maps_fd, maps_pos, maps_buffer, maps_reads>>
    /\ UNCHANGED writerVars
    /\ UNCHANGED nonMapsVars

\* write_binary_libs returns: ~scoped_writer
MapsClose(fsync_result, close_result) ==
    /\ maps_pc = "closing"
    /\ fd_log' = fd_log \o scoped_writer_dtor(fsync_result, close_result)
    /\ maps_pc' = "done"
    /\ UNCHANGED <<maps_file, maps_fd, maps_pos, maps_buffer, maps_reads>>
    /\ UNCHANGED <<fd_out, scopes, asked, ops>>
    /\ UNCHANGED nonMapsVars

MapsIdle ==
    /\ maps_file = <<>>
    /\ maps_fd = -1
    /\ maps_pos = 0
    /\ maps_buffer = <<>>
    /\ maps_reads = 0
    /\ maps_pc = "start"

-----------------------------------------------------------------------------
(* supplementary_file.h, crashpad_handler_main.cpp *)

\* template<typename WriteFunction, std::size_t BufferSize = 256u>
BufferSize == 256

\* std::strrchr(path, c): the 1-based index of the last c, 0 for a null result
StrRChr(path, c) ==
    IF \E i \in 1..Len(path) : path[i] = c
    THEN CHOOSE i \in 1..Len(path) : path[i] = c /\ \A j \in (i + 1)..Len(path) : path[j] # c
    ELSE 0

\* make_suppliment_path_from(path, suffix, buffer), buffer being N zeroed chars.
\* kind: "ok" when the two memcpy stay inside the buffer and leave a NUL after
\* the text; "unterminated" when they fill it to the last char; "overflow"
\* when they store past its end; "null" when strrchr finds no '.' and the
\* length is computed from a null pointer.
make_suppliment_path_from(path, suffix, N) ==
    LET extension == StrRChr(path, ".")
        extensionless_length == extension - 1
        suffix_length == Len(suffix)
        text == SubSeq(path, 1, extensionless_length) \o suffix
    IN  IF extension = 0 THEN [kind |-> "null", text |-> <<>>]
        ELSE [kind |-> IF extensionless_length + suffix_length < N THEN "ok"
                       ELSE IF extensionless_length + suffix_length = N
                       THEN "unterminated" ELSE "overflow",
              text |-> text]

\* what the stack holds after the buffer, as open() reads on past its end
Garbage == <<"?">>

\* char supplimentary_path[BufferSize] = { 0 };
\* make_suppliment_path_from(minidump_path, suffix, supplimentary_path);
\* outcome picks what the undefined cases do in the build at hand:
\*   "as_written": the bytes after the text happen to be zero and harmless
\*   "garbage":    open() reads the text and the bytes that follow it
\*   "abort":      the store or the stack check stops the process
SuppMakePath(outcome) ==
    /\ sup_pc = "start"
    /\ LET r == make_suppliment_path_from(sup_path, sup_suffix, BufferSize)
       IN  CASE r.kind = "ok" ->
                   /\ outcome = "as_written"
                   /\ sup_buffer' = r.text
                   /\ sup_pc' = "made"
                   /\ UNCHANGED sup_clobbered
             [] r.kind = "unterminated" ->
                   /\ outcome \in {"as_written", "garbage"}
                   /\ sup_buffer' = IF outcome = "garbage" THEN r.text \o Garbage
                                    ELSE r.text
                   /\ sup_pc' = "made"
                   /\ UNCHANGED sup_clobbered
             [] r.kind = "overflow" ->
                   /\ outcome \in {"as_written", "garbage", "abort"}
                   /\ sup_buffer' = IF outcome = "garbage" THEN r.text \o Garbage
                                    ELSE IF outcome = "abort" THEN <<>> ELSE r.text
                   /\ sup_pc' = IF outcome = "abort" THEN "fault" ELSE "made"
                   /\ sup_clobbered' = TRUE
             [] r.kind = "null" ->
                   /\ outcome = "abort"
                   /\ sup_buffer' = <<>>
                   /\ sup_pc' = "fault"
                   /\ UNCHANGED sup_clobbered
    /\ UNCHANGED <<sup_path, sup_suffix, sup_log>>
    /\ UNCHANGED mainVars
    /\ UNCHANGED nonSuppVars

\* if ((fd = open(supplimentary_path)) == -1) { return; }
SuppOpen(ok) ==
    /\ sup_pc = "made"
    /\ sup_log' = Append(sup_log, [suffix |-> sup_suffix, path |-> sup_buffer, ok |-> ok])
    /\ sup_pc' = IF ok THEN "opened" ELSE "failed"
    /\ UNCHANGED <<sup_path, sup_suffix, sup_buffer, sup_clobbered>>
    /\ UNCHANGED mainVars
    /\ UNCHANGED nonSuppVars

\* function(fd); for a function that writes and returns
SuppFunction ==
    /\ sup_pc = "opened"
    /\ sup_pc' = "written"
    /\ UNCHANGED <<sup_path, sup_suffix, sup_buffer, sup_log, sup_clobbered>>
    /\ UNCHANGED mainVars
    /\ UNCHANGED nonSuppVars

Chars_device_info ==
    <<".", "d", "e", "v", "i", "c", "e", "_", "i", "n", "f", "o">>
Chars_maps == <<".", "m", "a", "p", "s">>
Chars_supp_files == <<"/", "s", "u", "p", "p", ".", "f", "i", "l", "e", "s">>

\* a directory name of n characters
LongDir(n) == <<"/">> \o [i \in 1..(n - 1) |-> "a"]

\* exit statuses of crashpad::HandlerMain
StatusValues == {0, 1}

\* int status = crashpad::HandlerMain(argc, argv, nullptr);
MainEngine(status) ==
    /\ hm_pc = "start"
    /\ hm_status' = status
    /\ hm_pc' = "engine"
    /\ UNCHANGED <<hm_argv1, hm_ret>>
    /\ UNCHANGED suppVars
    /\ UNCHANGED nonSuppVars

\* std::string::find: the 1-based index of the first c, 0 for npos
StrFind(str, c) == StrChr(str, c)

\* path_spec.substr(path_spec.find('=') + 1, path_spec.length()) + "/supp.files";
\* npos + 1 is 0, so a path_spec without '=' is taken whole
MainPath(path_spec) ==
    SubSeq(path_spec, StrFind(path_spec, "=") + 1, Len(path_spec)) \o Chars_supp_files

\* write_supplimentary_file(path.c_str(), ".device_info", ...) is entered
MainSupplement ==
    /\ hm_pc = "engine"
    /\ sup_path' = MainPath(hm_argv1)
    /\ sup_suffix' = Chars_device_info
    /\ sup_pc' = "start"
    /\ hm_pc' = "supp"
    /\ UNCHANGED <<sup_buffer, sup_log, sup_clobbered>>
    /\ UNCHANGED <<hm_argv1, hm_status, hm_ret>>
    /\ UNCHANGED nonSuppVars

\* the lambda's google::crashlytics::write_device_info(fd), step by step
MainWriteDeviceInfo ==
    /\ hm_pc = "supp"
    /\ sup_pc = "opened"
    /\ \/ DeviceInfoBegin
       \/ DeviceInfoWrite
       \/ DeviceInfoEndObject
       \/ \E fsync_result \in SyscallResults, close_result \in SyscallResults :
             DeviceInfoEndWriter(fsync_result, close_result)

\* the lambda returns
MainWritten ==
    /\ hm_pc = "supp"
    /\ sup_pc = "opened"
    /\ DeviceInfoDone
    /\ sup_pc' = "written"
    /\ UNCHANGED <<sup_path, sup_suffix, sup_buffer, sup_log, sup_clobbered>>
    /\ UNCHANGED mainVars
    /\ UNCHANGED nonSuppVars

\* return status; status lives on the stack next to supplimentary_path, so
\* after a store past the end of the buffer it holds whatever was stored
MainReturn(ret) ==
    /\ hm_pc = "supp"
    /\ sup_pc \in {"failed", "written"}
    /\ ret \in (IF sup_clobbered THEN StatusValues ELSE {hm_status})
    /\ hm_ret' = ret
    /\ hm_pc' = "done"
    /\ UNCHANGED <<hm_argv1, hm_status>>
    /\ UNCHANGED suppVars
    /\ UNCHANGED nonSuppVars

SuppIdle ==
    /\ sup_path = <<>>
    /\ sup_suffix = <<>>
    /\ sup_buffer = <<>>
    /\ sup_log = <<>>
    /\ sup_clobbered = FALSE
    /\ sup_pc = "idle"

MainIdle ==
    /\ hm_argv1 = <<>>
    /\ hm_status = 0
    /\ hm_ret = 0
    /\ hm_pc = "start"

-----------------------------------------------------------------------------
(* handler/install.cpp, crashpad_interface.cpp *)

\* install_handlers calls made in one process
MaxInstalls == 3

\* the threads that may call install_handlers
InstallThreads == {1, 2}

nullptr == "nullptr"

\* load_crashlytics_common(): nullptr when self_path fails or dlopen fails
load_crashlytics_common(self_ok, dlopen_ok) ==
    IF ~self_ok THEN nullptr
    ELSE IF dlopen_ok THEN "common" ELSE nullptr

\* load_crashlytics_common_func(common, func_name)
load_crashlytics_common_func(common, func_name, dlsym_ok) ==
    IF common = nullptr THEN nullptr
    ELSE IF dlsym_ok THEN func_name ELSE nullptr

\* bool use_java_handler = !get_handler_trampoline(...)
get_handler_trampoline(at_least_q, self_ok) == at_least_q /\ self_ok

\* true as soon as the function was resolved, whatever it returns
install_result_ignoring_engine(install, started) == install # nullptr

\* return install && install(env, handler_context, ...)
install_result(install, started) == install # nullptr /\ started

NoInstallCall ==
    [began |-> 0, env |-> FALSE, self_ok |-> FALSE, dlopen_ok |-> FALSE,
     dlsym_ok |-> FALSE, install |-> nullptr, hooked |-> FALSE,
     engine |-> "not called", ret |-> FALSE]

\* "CLASSPATH=", "LD_LIBRARY_PATH=", "ANDROID_DATA=/data"
Chars_CLASSPATH == <<"C", "L", "A", "S", "S", "P", "A", "T", "H", "=">>
Chars_LD_LIBRARY_PATH ==
    <<"L", "D", "_", "L", "I", "B", "R", "A", "R", "Y", "_", "P", "A", "T", "H", "=">>
Chars_ANDROID_DATA ==
    <<"A", "N", "D", "R", "O", "I", "D", "_", "D", "A", "T", "A", "=", "/", "d", "a", "t", "a">>

\* the four push_back of install_signal_handler; path is what self_path left
\* in its second argument
install_environment(classpath, lib_path, path) ==
    <<Chars_CLASSPATH \o classpath,
      Chars_LD_LIBRARY_PATH \o lib_path,
      Chars_ANDROID_DATA,
      path>>

\* the processes modelled: the platform's answer to is_at_least_q() and the
\* context install_handlers is called with
InstallProcesses ==
    {[q |-> FALSE,
      ctx |-> [classpath |-> <<"/", "a", ".", "a", "p", "k">>, lib_path |-> <<"/", "l">>]],
     [q |-> TRUE,
      ctx |-> [classpath |-> <<"/", "b", ".", "a", "p", "k">>, lib_path |-> <<"/", "m">>]]}

\* the directory self_path finds for libcrashlytics.so: none when it fails
SelfPaths == {<<>>, <<"/", "l", "/">>}

\* install_handlers -> install_signal_handler, down to the choice of handler:
\* a new environment vector is built on every call
InstallBegin(t, path) ==
    /\ in_exit = "running"
    /\ in_pc[t] = "idle"
    /\ in_calls < MaxInstalls
    /\ in_calls' = in_calls + 1
    /\ in_envs' = in_envs + 1
    /\ in_env' = install_environment(in_ctx.classpath, in_ctx.lib_path, path)
    /\ in_local' = [in_local EXCEPT ![t] = [NoInstallCall EXCEPT !.began = Len(in_log),
                                                          !.env = TRUE]]
    /\ in_pc' = [in_pc EXCEPT ![t] = "env"]
    /\ UNCHANGED <<in_q, in_ctx, in_hooks, in_starts, in_client, in_log, in_exit, in_pending,
                   in_released>>
    /\ UNCHANGED nonInstallVars

\* install_signal_handler_java / _linker of install.cpp: resolve the function
\* of libcrashlytics-common, and return false when there is none
InstallResolve(t, self_ok, dlopen_ok, dlsym_ok) ==
    /\ in_pc[t] = "env"
    /\ LET use_java_handler == ~get_handler_trampoline(in_q, self_ok)
           func_name == IF use_java_handler THEN "install_signal_handler_java"
                        ELSE "install_signal_handler_linker"
           install == load_crashlytics_common_func(
                          load_crashlytics_common(self_ok, dlopen_ok), func_name, dlsym_ok)
           call == [in_local[t] EXCEPT !.self_ok = self_ok, !.dlopen_ok = dlopen_ok,
                                       !.dlsym_ok = dlsym_ok, !.install = install]
       IN  IF install = nullptr
           THEN /\ in_log' = Append(in_log,
                                 [call EXCEPT !.ret = install_result(install, FALSE)])
                /\ in_local' = [in_local EXCEPT ![t] = NoInstallCall]
                /\ in_pc' = [in_pc EXCEPT ![t] = "idle"]
           ELSE /\ in_local' = [in_local EXCEPT ![t] = call]
                /\ in_pc' = [in_pc EXCEPT ![t] = "resolved"]
                /\ UNCHANGED in_log
    /\ UNCHANGED <<in_q, in_ctx, in_env, in_calls, in_envs, in_hooks, in_starts, in_client, in_exit,
                   in_pending, in_released>>
    /\ UNCHANGED nonInstallVars

\* atexit(detail::finalize); in install_signal_handler_java / _linker of
\* crashpad_interface.cpp
InstallAtexit(t) ==
    /\ in_pc[t] = "resolved"
    /\ in_hooks' = in_hooks + 1
    /\ in_local' = [in_local EXCEPT ![t].hooked = TRUE]
    /\ in_pc' = [in_pc EXCEPT ![t] = "hooked"]
    /\ UNCHANGED <<in_q, in_ctx, in_env, in_calls, in_envs, in_starts, in_client, in_log, in_exit,
                   in_pending, in_released>>
    /\ UNCHANGED nonInstallVars

\* static crashpad::CrashpadClient* client = new crashpad::CrashpadClient();
GetCrashpadClient(client) == IF client = "none" THEN "live" ELSE client

\* return detail::GetCrashpadClient()->Start...HandlerAtCrash(...); and the
\* return of install_handlers with what the engine reported
InstallStartHandler(t, started) ==
    /\ in_pc[t] = "hooked"
    /\ in_client' = GetCrashpadClient(in_client)
    /\ in_starts' = in_starts + 1
    /\ in_log' = Append(in_log,
                   [in_local[t] EXCEPT
                       !.engine = IF started THEN "started" ELSE "failed",
                       !.ret = install_result(in_local[t].install, started)])
    /\ in_local' = [in_local EXCEPT ![t] = NoInstallCall]
    /\ in_pc' = [in_pc EXCEPT ![t] = "idle"]
    /\ UNCHANGED <<in_q, in_ctx, in_env, in_calls, in_envs, in_hooks, in_exit, in_pending, in_released>>
    /\ UNCHANGED nonInstallVars

\* the process exits: the functions registered with atexit run, one per
\* registration
ProcessExit ==
    /\ in_exit = "running"
    /\ \A t \in InstallThreads : in_pc[t] = "idle"
    /\ in_exit' = "exiting"
    /\ in_pending' = in_hooks
    /\ UNCHANGED <<in_q, in_ctx, in_env, in_pc, in_local, in_calls, in_envs, in_hooks, in_starts,
                   in_client, in_log, in_released>>
    /\ UNCHANGED nonInstallVars

\* finalize(): delete GetCrashpadClient(); deleting the client a second time
\* is undefined: the allocator aborts the process, or the exit goes on
Finalize(outcome) ==
    /\ in_exit = "exiting"
    /\ in_pending > 0
    /\ LET client == GetCrashpadClient(in_client)
       IN  /\ in_client' = "deleted"
           /\ in_released' = in_released + 1
           /\ IF client = "deleted"
              THEN /\ outcome \in {"abort", "continue"}
                   /\ in_exit' = IF outcome = "abort" THEN "aborted" ELSE "exiting"
              ELSE /\ outcome = "continue"
                   /\ UNCHANGED in_exit
    /\ in_pending' = in_pending - 1
    /\ UNCHANGED <<in_q, in_ctx, in_env, in_pc, in_local, in_calls, in_envs, in_hooks, in_starts, in_log>>
    /\ UNCHANGED nonInstallVars

\* every exit hook has run
ExitDone ==
    /\ in_exit = "exiting"
    /\ in_pending = 0
    /\ in_exit' = "exited"
    /\ UNCHANGED <<in_q, in_ctx, in_env, in_pc, in_local, in_calls, in_envs, in_hooks, in_starts,
                   in_client, in_log, in_pending, in_released>>
    /\ UNCHANGED nonInstallVars

InstallIdle ==
    /\ in_q = FALSE
    /\ in_ctx = [classpath |-> <<>>, lib_path |-> <<>>]
    /\ in_env = <<>>
    /\ in_pc = [t \in InstallThreads |-> "idle"]
    /\ in_local = [t \in InstallThreads |-> NoInstallCall]
    /\ in_calls = 0
    /\ in_envs = 0
    /\ in_hooks = 0
    /\ in_starts = 0
    /\ in_client = "none"
    /\ in_log = <<>>
    /\ in_exit = "running"
    /\ in_pending = 0
    /\ in_released = 0

-----------------------------------------------------------------------------
(* external/crashlytics.h *)

\* API calls made in one run
MaxApiCalls == 5

\* __CRASHLYTICS_NULL_CONTEXT
NULL_CONTEXT == 0

\* VerifyCrashlytics() answering true whatever __context holds
VerifyCrashlytics_always(context) == TRUE

\* VerifyCrashlytics(): if (__context) return true; return false;
VerifyCrashlytics(context) == context # NULL_CONTEXT

\* what dlopen, the five dlsym and external_api_initialize can do
InitOutcomes == {"ok", "no library", "no symbol", "initialize failure"}

\* __crashlytics_init(): a new context, or NULL when the library or one of its
\* symbols is missing or external_api_initialize fails
crashlytics_init(outcome, made) ==
    IF outcome = "ok" THEN made + 1 ELSE NULL_CONTEXT

\* the calls __crashlytics_init makes into the library, with the context
\* external_api_initialize returned
InitCalls(outcome, made) ==
    IF outcome \in {"ok", "initialize failure"}
    THEN <<[fn |-> "external_api_initialize", ctx |-> crashlytics_init(outcome, made)]>>
    ELSE <<>>

\* one more API call may be made
ApiCanCall == Len(api_history) < MaxApiCalls

\* what one API call adds to the history
ApiRecord(op, lib) ==
    Append(api_history, [op |-> op, phase |-> api_phase, reached |-> lib # api_lib])

\* Initialize(): __context = __crashlytics_init(); VerifyCrashlytics();
Initialize(outcome) ==
    /\ ApiCanCall
    /\ api_context' = crashlytics_init(outcome, api_made)
    /\ api_made' = IF outcome \in {"ok", "initialize failure"} THEN api_made + 1
                   ELSE api_made
    /\ api_lib' = api_lib \o InitCalls(outcome, api_made)
    /\ api_phase' = IF outcome = "ok" THEN "initialized" ELSE "failed"
    /\ api_history' = ApiRecord("Initialize", api_lib')
    /\ UNCHANGED nonApiVars

\* __crashlytics_free(&__context): dispose, deallocate, and null the pointer
crashlytics_free(context, lib) ==
    IF context # NULL_CONTEXT
    THEN [context |-> NULL_CONTEXT,
          lib |-> Append(lib, [fn |-> "external_api_dispose", ctx |-> context])]
    ELSE [context |-> context, lib |-> lib]

\* Terminate(): if (VerifyCrashlytics()) { __crashlytics_free(&__context); }
Terminate ==
    /\ ApiCanCall
    /\ LET r == IF VerifyCrashlytics(api_context)
                THEN crashlytics_free(api_context, api_lib)
                ELSE [context |-> api_context, lib |-> api_lib]
       IN  /\ api_context' = r.context
           /\ api_lib' = r.lib
    /\ api_phase' = "terminated"
    /\ api_history' = ApiRecord("Terminate", api_lib')
    /\ UNCHANGED api_made
    /\ UNCHANGED nonApiVars

\* if (VerifyCrashlytics()) { __context->fn(__context->__ctx, ...); }
Forwarded(context, lib, fn) ==
    IF VerifyCrashlytics(context)
    THEN Append(lib, [fn |-> fn, ctx |-> context])
    ELSE lib

\* Log(msg)
Log ==
    /\ ApiCanCall
    /\ api_lib' = Forwarded(api_context, api_lib, "external_api_log")
    /\ api_history' = ApiRecord("Log", api_lib')
    /\ UNCHANGED <<api_context, api_made, api_phase>>
    /\ UNCHANGED nonApiVars

\* SetCustomKey(key, value), every overload ending in the const char* one
SetCustomKey ==
    /\ ApiCanCall
    /\ api_lib' = Forwarded(api_context, api_lib, "external_api_set")
    /\ api_history' = ApiRecord("SetCustomKey", api_lib')
    /\ UNCHANGED <<api_context, api_made, api_phase>>
    /\ UNCHANGED nonApiVars

\* SetUserId(id)
SetUserId ==
    /\ ApiCanCall
    /\ api_lib' = Forwarded(api_context, api_lib, "external_api_set_user_id")
    /\ api_history' = ApiRecord("SetUserId", api_lib')
    /\ UNCHANGED <<api_context, api_made, api_phase>>
    /\ UNCHANGED nonApiVars

ApiIdle ==
    /\ api_context = NULL_CONTEXT
    /\ api_made = 0
    /\ api_lib = <<>>
    /\ api_phase = "never"
    /\ api_history = <<>>

HostIdle ==
    MeminfoIdle /\ MapsIdle /\ SuppIdle /\ MainIdle /\ InstallIdle /\ ApiIdle /\ FgetsIdle

-----------------------------------------------------------------------------
(* Specifications *)

\* the state before any allocator call; ps, e and checks are the page size
\* the kernel reports, sizeof (T) of the instance, and what the build does
\* with a null placement address
AllocatorAtStart(ps, e, checks) ==
    /\ partial_page_ = NullPtr
    /\ page_offset_ = 0
    /\ page_size_ = ps
    /\ sizeofT = e
    /\ vm = {}
    /\ low = MmapTop
    /\ header = <<>>
    /\ allocs = <<>>
    /\ storages = <<>>
    /\ munmaps = <<>>
    /\ last = NoCall
    /\ fault = FALSE
    /\ call_count = [T \in StorageTypes |-> 0]
    /\ static_storage = [T \in StorageTypes |-> 0]
    /\ new_checks_null = checks

\* one page_allocator<T> instance, its allocate() and deallocate()
InitAlloc ==
    /\ \E ps \in PageSizes, e \in ElemSizes : AllocatorAtStart(ps, e, FALSE)
    /\ CastIdle
    /\ WriterIdle
    /\ DeviceIdle
    /\ HostIdle

NextAlloc ==
    \/ \E n \in ReqCounts(sizeofT, page_size_), ok \in BOOLEAN, gap \in {0, 1} :
          Allocate(n, ok, gap)
    \/ \E i \in 1..MaxAllocs : Deallocate(i)

SpecAlloc == InitAlloc /\ [][NextAlloc]_vars

\* allocate_storage<T>() and release_storage()
InitStorage ==
    /\ \E ps \in PageSizes, checks \in BOOLEAN : AllocatorAtStart(ps, 1, checks)
    /\ CastIdle
    /\ WriterIdle
    /\ DeviceIdle
    /\ HostIdle

NextStorage ==
    \/ \E T \in StorageTypes, ok \in BOOLEAN, gap \in {0, 1} : AllocateStorage(T, ok, gap)
    \/ \E k \in 1..MaxStorages, v \in 1..MaxStorages : StoreValue(k, v)
    \/ \E k \in 1..MaxStorages : ReleaseStorage(k)

SpecStorage == InitStorage /\ [][NextStorage]_vars

\* one value through an encoder and back through the decoder
InitCast ==
    /\ \E ps \in PageSizes : AllocatorAtStart(ps, 1, FALSE)
    /\ cast_value \in CastValues
    /\ cast_buffer = <<>>
    /\ cast_length = 0
    /\ cast_result = U64(0)
    /\ cast_pc = "start"
    /\ atoll_overflow \in {"clamp", "wrap"}
    /\ WriterIdle
    /\ DeviceIdle
    /\ HostIdle

NextCast == EncodeDecimal \/ EncodeHex \/ Decode

SpecCast == InitCast /\ [][NextCast]_vars

\* one scoped_writer and the calls a caller can make on it
InitWriter ==
    /\ \E ps \in PageSizes : AllocatorAtStart(ps, 1, FALSE)
    /\ CastIdle
    /\ WriterIdle
    /\ DeviceIdle
    /\ HostIdle

NextWriter ==
    \/ \E key \in {NoKey} \cup WriterKeys, bracket \in Brackets, delimiter \in Delimiter :
          Wrap(key, bracket, delimiter)
    \/ Unwrap
    \/ \E key \in WriterKeys, value \in WrittenValues, delimiter \in Delimiter :
          WriteKeyValue(key, value, delimiter)
    \/ \E key \in WriterKeys, items \in WrittenArrays, delimiter \in Delimiter :
          WriteArray(key, items, delimiter)
    \/ \E fsync_result \in SyscallResults, close_result \in SyscallResults :
          DestroyWriter(fsync_result, close_result)

SpecWriter == InitWriter /\ [][NextWriter]_vars

\* one run of write_device_info over what the system queries returned
InitDeviceInfo ==
    /\ \E ps \in PageSizes : AllocatorAtStart(ps, 1, FALSE)
    /\ CastIdle
    /\ WriterIdle
    /\ di_pc = 0
    /\ di_memory \in MemoryStatistics
    /\ di_storage \in StorageStatistics
    /\ di_battery \in BatteryLevels
    /\ proximity_sensor_enabled \in BOOLEAN
    /\ HostIdle

NextDeviceInfo ==
    \/ DeviceInfoBegin
    \/ DeviceInfoWrite
    \/ DeviceInfoEndObject
    \/ \E fsync_result \in SyscallResults, close_result \in SyscallResults :
          DeviceInfoEndWriter(fsync_result, close_result)

SpecDeviceInfo == InitDeviceInfo /\ [][NextDeviceInfo]_vars

\* memory_statistics_from_proc over one meminfo file
InitMeminfo ==
    /\ \E ps \in PageSizes : AllocatorAtStart(ps, 1, FALSE)
    /\ CastIdle
    /\ WriterIdle
    /\ DeviceIdle
    /\ \E layout \in Layouts, tv \in KbValues, fv \in KbValues,
          tp \in Paddings, fp \in Paddings, opened \in BOOLEAN,
          beyond \in StackBytes :
          LET t == [pad |-> tp, value |-> tv]
              f == [pad |-> fp, value |-> fv]
          IN  /\ mi_lines = [layout |-> layout, T |-> t, F |-> f, opened |-> opened,
                              beyond |-> beyond]
              /\ mi_file = IF opened THEN MeminfoText(layout, t, f) ELSE <<>>
    /\ mi_pos = 0
    /\ mi_total = U64(0)
    /\ mi_free = U64(0)
    /\ mi_result = <<U64(0), U64(0)>>
    /\ mi_pc = "start"
    /\ MapsIdle
    /\ SuppIdle
    /\ MainIdle
    /\ InstallIdle
    /\ ApiIdle
    /\ FgetsIdle

NextMeminfo ==
    \/ MeminfoReadTotal
    \/ MeminfoReadFree
    \/ MeminfoReturn
    \/ MemoryStatisticsUnopened

SpecMeminfo == InitMeminfo /\ [][NextMeminfo]_vars

\* one run of write_binary_libs
InitMaps ==
    /\ \E ps \in PageSizes : AllocatorAtStart(ps, 1, FALSE)
    /\ CastIdle
    /\ WriterIdle
    /\ DeviceIdle
    /\ MeminfoIdle
    /\ maps_file \in {MapsFileOfLength(n) : n \in MapsFileLengths}
    /\ maps_fd = -1
    /\ maps_pos = 0
    /\ maps_buffer = [i \in 1..default_maps_buffer_size |-> 0]
    /\ maps_reads = 0
    /\ maps_pc = "start"
    /\ SuppIdle
    /\ MainIdle
    /\ InstallIdle
    /\ ApiIdle
    /\ FgetsIdle

NextMaps ==
    \/ \E ok \in BOOLEAN : MapsOpen(ok)
    \/ \E k \in 1..default_maps_buffer_size : MapsReadSome(k)
    \/ MapsReadEnd
    \/ \E fsync_result \in SyscallResults, close_result \in SyscallResults :
          MapsClose(fsync_result, close_result)

SpecMaps == InitMaps /\ [][NextMaps]_vars

Chars(dir, name) == dir \o <<"/">> \o name

\* dump paths handed to write_supplimentary_file: with an extension, with
\* several dots, with the only dot in a directory, with none, and with stems
\* around the size of the buffer
DumpPaths ==
    {Chars(<<"/", "d">>, <<"c", ".", "d", "m", "p">>),
     Chars(<<"/", "d">>, <<"s", "u", "p", "p", ".", "f", "i", "l", "e", "s">>),
     Chars(<<"/", "d">>, <<"a", ".", "b", ".", "d", "m", "p">>),
     Chars(<<"/", "d", ".", "v", "1">>, <<"c", ".", "d", "m", "p">>),
     Chars(<<"/", "d", ".", "v", "1">>, <<"c", "r", "a", "s", "h">>),
     Chars(<<"/", "d">>, <<"c", "r", "a", "s", "h">>),
     <<"c", ".", "d", "m", "p">>}
        \cup {Chars(LongDir(n), <<"c", ".", "d", "m", "p">>) :
                 n \in (BufferSize - 16)..(BufferSize - 5)}

\* one call of write_supplimentary_file
InitSupplement ==
    /\ \E ps \in PageSizes : AllocatorAtStart(ps, 1, FALSE)
    /\ CastIdle
    /\ WriterIdle
    /\ DeviceIdle
    /\ MeminfoIdle
    /\ MapsIdle
    /\ MainIdle
    /\ InstallIdle
    /\ ApiIdle
    /\ FgetsIdle
    /\ sup_path \in DumpPaths
    /\ sup_suffix \in {Chars_device_info, Chars_maps}
    /\ sup_buffer = <<>>
    /\ sup_log = <<>>
    /\ sup_clobbered = FALSE
    /\ sup_pc = "start"

NextSupplement ==
    \/ \E outcome \in {"as_written", "garbage", "abort"} : SuppMakePath(outcome)
    \/ \E ok \in BOOLEAN : SuppOpen(ok)
    \/ SuppFunction

SpecSupplement == InitSupplement /\ [][NextSupplement]_vars

Chars_database == <<"-", "-", "d", "a", "t", "a", "b", "a", "s", "e", "=">>

\* argv[1] of the handler: the database directory, with and without the
\* option's name, short and around the size of the buffer
PathSpecs ==
    {Chars_database \o <<"/", "d">>, <<"/", "d">>}
        \cup {Chars_database \o LongDir(n) : n \in (BufferSize - 19)..(BufferSize - 15)}

\* one run of CrashpadHandlerMain
InitHandlerMain ==
    /\ \E ps \in PageSizes : AllocatorAtStart(ps, 1, FALSE)
    /\ CastIdle
    /\ WriterIdle
    /\ di_pc = 0
    /\ di_memory = <<Giga(8), Giga(2)>>
    /\ di_storage = <<Giga(50), Giga(10)>>
    /\ di_battery \in {U64(0), U64(73)}
    /\ proximity_sensor_enabled = FALSE
    /\ MeminfoIdle
    /\ MapsIdle
    /\ SuppIdle
    /\ InstallIdle
    /\ ApiIdle
    /\ FgetsIdle
    /\ hm_argv1 \in PathSpecs
    /\ hm_status = 0
    /\ hm_ret = 0
    /\ hm_pc = "start"

NextHandlerMain ==
    \/ \E status \in StatusValues : MainEngine(status)
    \/ MainSupplement
    \/ \E outcome \in {"as_written", "garbage", "abort"} : SuppMakePath(outcome)
    \/ \E ok \in BOOLEAN : SuppOpen(ok)
    \/ MainWriteDeviceInfo
    \/ MainWritten
    \/ \E ret \in StatusValues : MainReturn(ret)

SpecHandlerMain == InitHandlerMain /\ [][NextHandlerMain]_vars

\* one process, from its start to its exit, whose threads call install_handlers
InitInstall ==
    /\ \E ps \in PageSizes : AllocatorAtStart(ps, 1, FALSE)
    /\ CastIdle
    /\ WriterIdle
    /\ DeviceIdle
    /\ MeminfoIdle
    /\ MapsIdle
    /\ SuppIdle
    /\ MainIdle
    /\ ApiIdle
    /\ FgetsIdle
    /\ \E process \in InstallProcesses : in_q = process.q /\ in_ctx = process.ctx
    /\ in_env = <<>>
    /\ in_pc = [t \in InstallThreads |-> "idle"]
    /\ in_local = [t \in InstallThreads |-> NoInstallCall]
    /\ in_calls = 0
    /\ in_envs = 0
    /\ in_hooks = 0
    /\ in_starts = 0
    /\ in_client = "none"
    /\ in_log = <<>>
    /\ in_exit = "running"
    /\ in_pending = 0
    /\ in_released = 0

NextInstall ==
    \/ \E t \in InstallThreads, path \in SelfPaths : InstallBegin(t, path)
    \/ \E t \in InstallThreads, self_ok \in BOOLEAN, dlopen_ok \in BOOLEAN,
          dlsym_ok \in BOOLEAN : InstallResolve(t, self_ok, dlopen_ok, dlsym_ok)
    \/ \E t \in InstallThreads : InstallAtexit(t)
    \/ \E t \in InstallThreads, started \in BOOLEAN : InstallStartHandler(t, started)
    \/ ProcessExit
    \/ \E outcome \in {"abort", "continue"} : Finalize(outcome)
    \/ ExitDone

SpecInstall == InitInstall /\ [][NextInstall]_vars

\* one client of the API, from the load of its program on
InitApi ==
    /\ \E ps \in PageSizes : AllocatorAtStart(ps, 1, FALSE)
    /\ CastIdle
    /\ WriterIdle
    /\ DeviceIdle
    /\ MeminfoIdle
    /\ MapsIdle
    /\ SuppIdle
    /\ MainIdle
    /\ InstallIdle
    /\ ApiIdle
    /\ FgetsIdle

NextApi ==
    \/ \E outcome \in InitOutcomes : Initialize(outcome)
    \/ Terminate
    \/ Log
    \/ SetCustomKey
    \/ SetUserId

SpecApi == InitApi /\ [][NextApi]_vars

\* the longest file read line by line
MaxFileLen == 5

\* the text files of up to n characters, lines of "a" ended by "\n"
TextFiles(n) == UNION {[1..k -> {"a", "\n"}] : k \in 0..n}

\* sizes of the storage handed to fgets_safe
StorageSizes == {3, 5}

\* one descriptor read with fgets_safe from its start to the first nullptr
InitFgets ==
    /\ \E ps \in PageSizes : AllocatorAtStart(ps, 1, FALSE)
    /\ CastIdle
    /\ WriterIdle
    /\ DeviceIdle
    /\ MeminfoIdle
    /\ MapsIdle
    /\ SuppIdle
    /\ MainIdle
    /\ InstallIdle
    /\ ApiIdle
    /\ fg_file \in TextFiles(MaxFileLen)
    /\ fg_size \in StorageSizes
    /\ fg_pos = 0
    /\ fg_calls = <<>>
    /\ fg_pc = "reading"

NextFgets == \E bytes \in -1..MaxFileLen : FgetsSafe(bytes)

SpecFgets == InitFgets /\ [][NextFgets]_vars

-----------------------------------------------------------------------------
(* Properties of the allocator *)

\* the bytes an allocation occupies: its header, then its payload
RegionLo(a) == unmarked(a.p)
RegionHi(a) == a.p + a.bytes

Disjoint(a, b) == RegionHi(a) <= RegionLo(b) \/ RegionHi(b) <= RegionLo(a)

\* C1: allocate_storage<T>() always returns a non-null pointer: the mapped
\* storage when the page mapping succeeds, the per-type static slot when it
\* fails; the failure never reaches the caller.
C1_AllocateStorageNeverNull ==
    last.op = "allocate_storage" =>
        /\ last.returned
        /\ last.ret # NullPtr
        /\ last.ok => (last.ret = mark(low) /\ duration(header, last.ret) = Mmap)
        /\ ~last.ok => last.ret = mark(StaticAddr(last.T))

AllRequestsWithinMaxSize ==
    /\ \A i \in 1..Len(allocs) : allocs[i].bytes <= max_size
    /\ last.n * sizeofT <= max_size

\* C2: as long as only allocate() was called on the instance, with requests
\* of at most 10 MiB, every region it returned (header and payload) lies
\* inside pages it mapped, and no two regions overlap.
C2_RegionsInsideMappedAndDisjoint ==
    (munmaps = <<>> /\ AllRequestsWithinMaxSize) =>
        /\ ~fault
        /\ \A i \in 1..Len(allocs) :
              Covered(vm, RegionLo(allocs[i]), RegionHi(allocs[i]))
        /\ \A i, j \in 1..Len(allocs) :
              i < j => Disjoint(allocs[i], allocs[j])

\* C3: when every request so far was smaller than one page, the bump offset
\* never exceeds page_size - 8, and a request the tail of the partial page
\* cannot hold (remaining bytes < request + 8) is served by a fresh mapping.
AllRequestsBelowOnePage ==
    /\ \A i \in 1..Len(allocs) : allocs[i].bytes < page_size_
    /\ last.n * sizeofT < page_size_

C3_BumpOffsetBounded ==
    AllRequestsBelowOnePage =>
        /\ page_offset_ <= page_size_ - HeaderSize
        /\ (/\ last.op = "allocate" /\ last.n > 0 /\ last.ok
            /\ last.before[1] # NullPtr
            /\ page_size_ - last.before[2] < last.n * sizeofT + HeaderSize)
                => (last.returned /\ last.mapped > 0)

\* C4: no deallocation path calls munmap for storage whose header is tagged
\* Ignorable or Static; only Mmap-tagged storage is unmapped.
C4_OnlyMmapTaggedIsUnmapped ==
    \A k \in 1..Len(munmaps) : munmaps[k].tag = Mmap

\* C5: deallocate(p, n) of Mmap-tagged storage that allocate(n) returned
\* unmaps, from the start of the mapping, exactly the pages that were mapped
\* at allocation time (the kernel rounds the length it is given up to pages).
C5_UnmapsExactlyWhatWasMapped ==
    \A k \in 1..Len(munmaps) :
        (munmaps[k].by = "deallocate" /\ munmaps[k].tag = Mmap) =>
            \A i \in 1..Len(allocs) :
                allocs[i].p = munmaps[k].p =>
                    /\ munmaps[k].addr = allocs[i].base
                    /\ RoundUp(munmaps[k].length, page_size_)
                          = allocs[i].pages * page_size_

\* C6: allocate(n) rejects every request above max_size(): it returns null,
\* maps no page and leaves the partial-page cursor as it was.
C6_RejectsAboveMaxSize ==
    (last.op = "allocate" /\ last.n * sizeofT > max_size) =>
        /\ last.ret = NullPtr
        /\ last.mapped = 0
        /\ last.cursor = last.before

\* C7: when the page mapping fails, every allocate_storage<T>() call returns
\* the same non-null static slot of T, tagged Static and freshly zeroed (what
\* an earlier caller stored there is gone), and no call fails.
C7_StaticSlotReusedAndZeroed ==
    (last.op = "allocate_storage" /\ ~last.ok) =>
        /\ last.returned
        /\ last.ret = mark(StaticAddr(last.T))
        /\ duration(header, last.ret) = Static
        /\ static_storage[last.T] = 0

-----------------------------------------------------------------------------
(* Properties of lexical_cast *)

\* C8: for every uint64_t value v, decoding with lexical_cast<uint64_t> the
\* text the decimal encoder, or the hex encoder, produced for v yields v.
C8_RoundTrip ==
    cast_pc \in {"decoded_decimal", "decoded_hex"} => cast_result = cast_value

-----------------------------------------------------------------------------
(* Properties of scoped_writer *)

Closers == {"}", "]"}

CloserOf(c) == IF c = "{" THEN "}" ELSE "]"

RECURSIVE OpenBrackets(_, _)
\* reads the bytes left to right: the closers still owed, outermost first, or
\* <<"unbalanced">> as soon as a closer arrives that is not the one owed
OpenBrackets(bytes, owed) ==
    IF bytes = <<>> THEN owed
    ELSE LET c == Head(bytes)
         IN  IF c \in {"{", "["}
             THEN OpenBrackets(Tail(bytes), Append(owed, CloserOf(c)))
             ELSE IF c \in Closers
             THEN IF owed # <<>> /\ owed[Len(owed)] = c
                  THEN OpenBrackets(Tail(bytes), SubSeq(owed, 1, Len(owed) - 1))
                  ELSE <<"unbalanced">>
             ELSE OpenBrackets(Tail(bytes), owed)

\* the stream is a well-nested prefix, and what it still owes is exactly the
\* closers of the live scopes: it is balanced whenever no scope is live
IsBracket(c) == c \in {"{", "["} \cup Closers

BracketsMatchScopes ==
    OpenBrackets(SelectSeq(fd_out, IsBracket), <<>>)
        = [i \in 1..Len(scopes) |-> scopes[i].close_]

CommaBeforeCloser(i) ==
    /\ i \in 1..(Len(fd_out) - 1)
    /\ fd_out[i] = ","
    /\ fd_out[i + 1] \in Closers

\* C9 as stated: for every sequence of wrapped constructions and destructions
\* with key/value writes in between and any choice of delimiters, the stream
\* has balanced, properly nested brackets and no comma right before a closing
\* bracket.
C9_BalancedAndNoCommaBeforeCloser ==
    /\ BracketsMatchScopes
    /\ \A i \in 1..Len(fd_out) : ~CommaBeforeCloser(i)

\* C9, amended: the brackets are balanced and properly nested, and a comma
\* stands right before a closing bracket only where the caller chose the
\* Comma delimiter for the last member of that scope; write_array puts none
\* there itself.
C9_BalancedAndCommaOnlyWhereAsked ==
    /\ BracketsMatchScopes
    /\ \A i \in 1..Len(fd_out) : CommaBeforeCloser(i) => i \in asked

\* an object with an array member in it, both closed, the member written
\* with the Comma delimiter
C9_Witness ==
    /\ scopes = <<>>
    /\ fd_out # <<>>
    /\ fd_out[1] = "{"
    /\ \E i \in 1..Len(fd_out) : fd_out[i] = "["
    /\ \E i \in 1..Len(fd_out) : CommaBeforeCloser(i)
    /\ OpenBrackets(SelectSeq(fd_out, IsBracket), <<>>) = <<>>

-----------------------------------------------------------------------------
(* Properties of write_device_info *)

Quoted(text) == <<"\"">> \o text \o <<"\"">>

RECURSIVE DecimalValue(_, _)
\* the number a text of decimal digits denotes, read left to right
DecimalValue(text, acc) ==
    IF text = <<>> THEN acc
    ELSE DecimalValue(Tail(text), MulAdd(acc, 10, DigitValue(Head(text))).v)

\* text is the decimal numeral of v: digits only, no leading zero
IsDecimalOf(text, v) ==
    /\ text # <<>>
    /\ \A i \in 1..Len(text) : IsDigit(text[i])
    /\ Len(text) > 1 => text[1] # "0"
    /\ Len(text) <= 20
    /\ DecimalValue(text, U64(0)) = v

\* the record, member by member
DeviceInfoRecord(O, MT, ST, MF, SF, B, P) ==
    <<"{">>
        \o Quoted(Key_orientation) \o <<":">> \o O \o <<",">>
        \o Quoted(Key_total_physical_memory) \o <<":">> \o MT \o <<",">>
        \o Quoted(Key_total_internal_storage) \o <<":">> \o ST \o <<",">>
        \o Quoted(Key_available_physical_memory) \o <<":">> \o MF \o <<",">>
        \o Quoted(Key_available_internal_storage) \o <<":">> \o SF \o <<",">>
        \o Quoted(Key_battery) \o <<":">> \o B \o <<",">>
        \o Quoted(Key_proximity_enabled) \o <<":">> \o P
        \o <<"}">>

ScenarioInputs ==
    /\ di_memory = <<Giga(8), Giga(2)>>
    /\ di_storage = <<Giga(50), Giga(10)>>
    /\ di_battery = U64(73)
    /\ proximity_sensor_enabled = FALSE

\* the output of the scenario, byte by byte
ScenarioOutput ==
    \* {"orientation":0,
    <<"{", "\"", "o", "r", "i", "e", "n", "t", "a", "t", "i", "o", "n",
      "\"", ":", "0", ",">> \o
    \* "total_physical_memory":8000000000,
    <<"\"", "t", "o", "t", "a", "l", "_", "p", "h", "y", "s", "i", "c", "a",
      "l", "_", "m", "e", "m", "o", "r", "y", "\"", ":", "8", "0", "0", "0",
      "0", "0", "0", "0", "0", "0", ",">> \o
    \* "total_internal_storage":50000000000,
    <<"\"", "t", "o", "t", "a", "l", "_", "i", "n", "t", "e", "r", "n", "a",
      "l", "_", "s", "t", "o", "r", "a", "g", "e", "\"", ":", "5", "0", "0",
      "0", "0", "0", "0", "0", "0", "0", "0", ",">> \o
    \* "available_physical_memory":2000000000,
    <<"\"", "a", "v", "a", "i", "l", "a", "b", "l", "e", "_", "p", "h", "y",
      "s", "i", "c", "a", "l", "_", "m", "e", "m", "o", "r", "y", "\"", ":",
      "2", "0", "0", "0", "0", "0", "0", "0", "0", "0", ",">> \o
    \* "available_internal_storage":10000000000,
    <<"\"", "a", "v", "a", "i", "l", "a", "b", "l", "e", "_", "i", "n", "t",
      "e", "r", "n", "a", "l", "_", "s", "t", "o", "r", "a", "g", "e", "\"",
      ":", "1", "0", "0", "0", "0", "0", "0", "0", "0", "0", "0", ",">> \o
    \* "battery":73,
    <<"\"", "b", "a", "t", "t", "e", "r", "y", "\"", ":", "7", "3", ",">> \o
    \* "proximity_enabled":false}
    <<"\"", "p", "r", "o", "x", "i", "m", "i", "t", "y", "_", "e", "n", "a",
      "b", "l", "e", "d", "\"", ":", "f", "a", "l", "s", "e", "}">>

\* C10: write_device_info emits exactly one object with the seven quoted keys
\* in the fixed order, the unsigned values in decimal, proximity_enabled as
\* true or false, no whitespace and no comma after the last member; for the
\* inputs of the scenario the output is the string of the scenario.
C10_DeviceInfoRecord ==
    DeviceInfoDone =>
        LET O == lexical_cast_decimal(orientation)
            MT == lexical_cast_decimal(di_memory[1])
            ST == lexical_cast_decimal(di_storage[1])
            MF == lexical_cast_decimal(di_memory[2])
            SF == lexical_cast_decimal(di_storage[2])
            B == lexical_cast_decimal(di_battery)
            P == IF proximity_sensor_enabled THEN <<"t", "r", "u", "e">>
                                             ELSE <<"f", "a", "l", "s", "e">>
        IN  /\ fd_out = DeviceInfoRecord(O, MT, ST, MF, SF, B, P)
            /\ IsDecimalOf(O, orientation)
            /\ IsDecimalOf(MT, di_memory[1])
            /\ IsDecimalOf(ST, di_storage[1])
            /\ IsDecimalOf(MF, di_memory[2])
            /\ IsDecimalOf(SF, di_storage[2])
            /\ IsDecimalOf(B, di_battery)
            /\ scopes = <<>>
            /\ ScenarioInputs => fd_out = ScenarioOutput

\* the scenario has run to the end
C10_Witness == DeviceInfoDone /\ ScenarioInputs /\ fd_out = ScenarioOutput

-----------------------------------------------------------------------------
(* Properties of memory_statistics_from_proc *)

\* the file holds the line of MemTotal ("T") or of MemFree ("F")
HasLine(which) == \E i \in 1..Len(mi_lines.layout) : mi_lines.layout[i] = which

\* C11: when the file holds a line starting "MemTotal:" with the value T > 0
\* and a line starting "MemFree:" with the value F > 0, after any number of
\* padding spaces and wherever the two lines sit among the others,
\* memory_statistics_from_proc returns (T * 1024, F * 1024).
C11_MeminfoPair ==
    (mi_pc = "done" /\ mi_lines.opened /\ HasLine("T") /\ HasLine("F")
        /\ mi_lines.T.value.n > 0 /\ mi_lines.F.value.n > 0) =>
        mi_result = <<Times(U64(mi_lines.T.value.n), 1024),
                      Times(U64(mi_lines.F.value.n), 1024)>>

-----------------------------------------------------------------------------
(* Properties of write_binary_libs *)

\* C12: for every file length and every pattern of full or short reads,
\* write_binary_libs writes exactly the bytes of the memory-map file, in
\* order: same length, same content, nothing added, repeated or omitted.
C12_MapsCopiedVerbatim ==
    (maps_pc = "done" /\ maps_fd # -1) => fd_out = maps_file

-----------------------------------------------------------------------------
(* Properties of write_supplimentary_file and CrashpadHandlerMain *)

\* the final component of a path: what follows its last '/'
FinalComponentStart(path) == StrRChr(path, "/") + 1

\* P with the extension of its final path component removed
Stem(path) ==
    LET dot == StrRChr(path, ".")
    IN  IF dot >= FinalComponentStart(path) THEN SubSeq(path, 1, dot - 1) ELSE path

\* the directory part of a path, up to and including its last '/'
DirOf(path) == SubSeq(path, 1, StrRChr(path, "/"))

\* C13: for every dump path P and suffix S, the supplementary path that is
\* opened is stem(P) + S, a sibling of the dump in the same directory.
C13_SupplementaryPathIsStemPlusSuffix ==
    /\ sup_pc # "fault"
    /\ \A i \in 1..Len(sup_log) :
          /\ sup_log[i].path = Stem(sup_path) \o sup_log[i].suffix
          /\ DirOf(sup_log[i].path) = DirOf(sup_path)

\* C14: on every run of the handler, whatever status the engine reports, both
\* supplementary files are attempted: the device-info file and the .maps
\* file, the one whether or not the other could be opened or written.
C14_BothSupplementaryFilesAttempted ==
    hm_pc = "done" =>
        /\ \E i \in 1..Len(sup_log) : sup_log[i].suffix = Chars_device_info
        /\ \E i \in 1..Len(sup_log) : sup_log[i].suffix = Chars_maps

\* C19: the status CrashpadHandlerMain returns is the status the engine's
\* HandlerMain returned; a supplementary file that cannot be opened or
\* written neither changes it nor keeps the handler from returning.
C19_ReturnsEngineStatus ==
    /\ hm_pc = "done" => hm_ret = hm_status
    /\ (hm_pc = "supp" /\ sup_pc = "failed") => ENABLED MainReturn(hm_status)

-----------------------------------------------------------------------------
(* Properties of install_handlers and finalize *)

\* call j of the log began after call i had returned
InSequence(i, j) == i < j /\ in_log[j].began >= i

\* C15: when install_handlers is called twice in sequence, exactly one handler
\* is constructed and started: the second call does not start the engine's
\* handler again, builds no new environment, registers no further exit hook,
\* and returns the success the first call established.
C15_SecondInstallIsNoOp ==
    \A i, j \in 1..Len(in_log) :
        (InSequence(i, j) /\ in_log[i].ret) =>
            /\ in_log[j].engine = "not called"
            /\ ~in_log[j].hooked
            /\ in_envs = 1
            /\ in_starts = 1
            /\ in_log[j].ret

\* C16: under every interleaving of install attempts only the first caller
\* builds the handler context and starts the handler; the handler instance is
\* set up at most once, whatever the other attempts do.
C16_AtMostOneInstallTakesEffect ==
    /\ in_envs <= 1
    /\ in_hooks <= 1
    /\ in_starts <= 1

\* C17: for any number of install calls, process exit releases the handler
\* instance exactly once, and never releases an instance already released.
C17_ReleasedExactlyOnce ==
    /\ in_released <= 1
    /\ in_exit # "aborted"
    /\ (in_exit = "exited" /\ in_client # "none") => in_released = 1

\* the outcome of a returned call says the installation failed
InstallFailed(call) ==
    \/ ~call.self_ok
    \/ ~call.dlopen_ok
    \/ ~call.dlsym_ok
    \/ call.engine # "started"

\* C18: install_handlers returns false whenever libcrashlytics-common cannot
\* be loaded, the install symbol cannot be resolved, or the engine's
\* start-handler call reports failure; it returns true only when the engine
\* reported that the handler was started.
C18_InstallReturnsEngineOutcome ==
    \A i \in 1..Len(in_log) :
        /\ InstallFailed(in_log[i]) => ~in_log[i].ret
        /\ in_log[i].ret => in_log[i].engine = "started"

\* a call that the engine refused, a call that could not load the library, and
\* a call that succeeded have all returned
C18_Witness ==
    /\ \E i \in 1..Len(in_log) : in_log[i].engine = "failed" /\ ~in_log[i].ret
    /\ \E i \in 1..Len(in_log) : ~in_log[i].dlopen_ok /\ ~in_log[i].ret
    /\ \E i \in 1..Len(in_log) : in_log[i].engine = "started" /\ in_log[i].ret

-----------------------------------------------------------------------------
(* Properties of the external API *)

MetadataOps == {"Log", "SetCustomKey", "SetUserId"}

\* C20: after Terminate(), before any Initialize() and after an Initialize()
\* that failed, no call of Log, SetCustomKey or SetUserId reaches the
\* underlying library; they reach it again once Initialize() has succeeded.
C20_NoEffectUnlessInitialized ==
    \A i \in 1..Len(api_history) :
        api_history[i].op \in MetadataOps =>
            (api_history[i].reached <=> api_history[i].phase = "initialized")

\* a call went through, Terminate() followed, and a later call was dropped
C20_Witness ==
    \E i, j, k \in 1..Len(api_history) :
        /\ i < j /\ j < k
        /\ api_history[i].op \in MetadataOps /\ api_history[i].reached
        /\ api_history[j].op = "Terminate" /\ api_history[j].reached
        /\ api_history[k].op \in MetadataOps /\ api_history[k].phase = "terminated"
        /\ ~api_history[k].reached

-----------------------------------------------------------------------------
(* Properties of the environment, the page allocator's cursor and fgets_safe *)

\* a string KEY=VALUE: a '=' after a key of at least one character
IsKeyValue(str) == \E i \in 2..Len(str) : str[i] = "=" /\ \A j \in 1..(i - 1) : str[j] # "="

\* some string of the list is key=value
HasEntry(env, key, value) == \E i \in 1..Len(env) : env[i] = key \o <<"=">> \o value

\* C21: the environment list install_signal_handler builds holds only strings
\* KEY=VALUE, among them CLASSPATH=<classpath>, LD_LIBRARY_PATH=<lib_path> and
\* ANDROID_DATA=/data.
C21_EnvironmentIsKeyValue ==
    in_envs > 0 =>
        /\ \A i \in 1..Len(in_env) : IsKeyValue(in_env[i])
        /\ HasEntry(in_env, <<"C", "L", "A", "S", "S", "P", "A", "T", "H">>, in_ctx.classpath)
        /\ HasEntry(in_env, SubSeq(Chars_LD_LIBRARY_PATH, 1, 15), in_ctx.lib_path)
        /\ HasEntry(in_env, SubSeq(Chars_ANDROID_DATA, 1, 12), <<"/", "d", "a", "t", "a">>)

\* the last allocate call asked for storage and the kernel did not refuse it
LastAllocateServed == last.op = "allocate" /\ last.n > 0 /\ last.ok

\* the bytes the last allocate call asked for
LastRequest == last.n * sizeofT

\* the request of the last call fitted in the tail the partial page had left
FitsInTail ==
    /\ last.before[1] # NullPtr
    /\ last.before[2] + HeaderSize + LastRequest <= page_size_

\* ceil((request + 8) / page_size)
PagesFor(request, ps) ==
    IF (request + HeaderSize) % ps = 0 THEN (request + HeaderSize) \div ps
    ELSE (request + HeaderSize) \div ps + 1

\* C22: a request that fits in the unused tail of the partial page is
\* bump-allocated there, its header written at the bump point and tagged
\* Ignorable; a request that does not fit maps exactly ceil((request + 8) /
\* page_size) fresh pages, is tagged Mmap, and leaves the cursor on the last
\* page of the new mapping at offset (request + 8) mod page_size.
C22_BumpOrFreshPages ==
    LastAllocateServed =>
        IF FitsInTail
        THEN /\ last.returned
             /\ last.mapped = 0
             /\ last.ret = last.before[1] + last.before[2] + HeaderSize
             /\ duration(header, last.ret) = Ignorable
        ELSE /\ last.returned
             /\ last.mapped = PagesFor(LastRequest, page_size_)
             /\ duration(header, last.ret) = Mmap
             /\ last.cursor[2] = (LastRequest + HeaderSize) % page_size_
             /\ last.cursor[2] # 0 =>
                    last.cursor[1] = unmarked(last.ret) + page_size_ * (last.mapped - 1)

\* the request of the last call, with its header, ended exactly on a page boundary
EndsOnPageBoundary ==
    IF FitsInTail THEN last.before[2] + HeaderSize + LastRequest = page_size_
    ELSE (LastRequest + HeaderSize) % page_size_ = 0

\* C23: after every allocate call the cursor is (null, 0) or (a page, an offset
\* with 0 < offset < page_size); it is reset to (null, 0) exactly when the
\* request and its header end on a page boundary; allocate(0) and an allocate
\* whose mapping fails leave it unchanged.
C23_CursorWellFormed ==
    /\ \/ partial_page_ = NullPtr /\ page_offset_ = 0
       \/ partial_page_ # NullPtr /\ 0 < page_offset_ /\ page_offset_ < page_size_
    /\ last.op = "allocate" =>
          /\ last.cursor = <<partial_page_, page_offset_>>
          /\ (last.n = 0 \/ ~last.ok) => last.cursor = last.before
          /\ LastAllocateServed => (last.cursor = <<NullPtr, 0>> <=> EndsOnPageBoundary)

\* the bytes read() handed to call c of fgets_safe
Chunk(c) == SubSeq(fg_file, c.from + 1, c.from + c.bytes)

\* the length of the line at the head of a chunk: up to and including its
\* first newline, or all of it when it holds none
LineLength(chunk) ==
    IF \E i \in 1..Len(chunk) : chunk[i] = "\n"
    THEN CHOOSE i \in 1..Len(chunk) : chunk[i] = "\n" /\ \A j \in 1..(i - 1) : chunk[j] # "\n"
    ELSE Len(chunk)

\* the characters of the file from offset lo to offset hi, as fgets_safe
\* hands them out: the newline shown as '|'
Shown(lo, hi) ==
    [i \in 1..(hi - lo) |-> IF fg_file[lo + i] = "\n" THEN "|" ELSE fg_file[lo + i]]

\* C24: after each fgets_safe call that returns non-null the file offset is
\* just past the line it returned (one past the first newline of the chunk, or
\* the end of the chunk when it holds none), so successive calls return
\* consecutive segments of the file, no byte skipped and none returned twice;
\* fgets_safe returns nullptr exactly when read reports end of file or an error.
C24_ConsecutiveLines ==
    /\ \A i \in 1..Len(fg_calls) :
          LET c == fg_calls[i]
          IN  /\ c.from = (IF i = 1 THEN 0 ELSE fg_calls[i - 1].to)
              /\ c.ok <=> c.bytes > 0
              /\ c.ok =>
                    /\ c.to = c.from + LineLength(Chunk(c))
                    /\ SubSeq(c.storage, 1, c.to - c.from) = Shown(c.from, c.to)
                    /\ \A k \in (c.to - c.from + 1)..Len(c.storage) : c.storage[k] = NUL
              /\ ~c.ok => c.to = c.from
    /\ fg_pos = (IF fg_calls = <<>> THEN 0 ELSE fg_calls[Len(fg_calls)].to)
    /\ fg_pc = "null" <=> (fg_calls # <<>> /\ ~fg_calls[Len(fg_calls)].ok)

\* a line ended by its newline with more of the chunk behind it, a chunk
\* without a newline, and the end of the file have been returned in one run
C24_Witness ==
    /\ fg_pc = "null"
    /\ fg_pos = Len(fg_file)
    /\ \E i \in 1..Len(fg_calls) :
          fg_calls[i].ok /\ fg_calls[i].to < fg_calls[i].from + fg_calls[i].bytes
    /\ \E i \in 1..Len(fg_calls) :
          fg_calls[i].ok /\ fg_file[fg_calls[i].to] # "\n"

\* the file could not be opened, or one of the two fields is absent, was
\* parsed to zero, or is a zero written after its padding
MeminfoUnusable ==
    \/ ~mi_lines.opened
    \/ ~HasLine("T") \/ ~HasLine("F")
    \/ IsZero(mi_total) \/ IsZero(mi_free)
    \/ mi_lines.T.value.n = 0 /\ mi_lines.T.pad > 0
    \/ mi_lines.F.value.n = 0 /\ mi_lines.F.pad > 0

-----------------------------------------------------------------------------
(* Properties of the descriptor of write_device_info *)

\* the system calls of the log, by name
Calls(log) == [i \in 1..Len(log) |-> log[i].call]

\* the whole record is in the stream: its object is closed by its '}'
RecordClosed ==
    /\ scopes = <<>>
    /\ fd_out # <<>>
    /\ fd_out[1] = "{"
    /\ fd_out[Len(fd_out)] = "}"
    /\ OpenBrackets(SelectSeq(fd_out, IsBracket), <<>>) = <<>>

\* C26: on destruction a scoped_writer calls fsync and then close on its
\* descriptor, each exactly once, and a failure of either is swallowed; in
\* write_device_info every byte of the record, the closing '}' included, is
\* written before that fsync and close, and nothing is written afterwards.
C26_FlushAndCloseAfterRecord ==
    /\ [](Calls(fd_log) \in {<<>>, <<"fsync", "close">>})
    /\ [](DeviceInfoDone => Calls(fd_log) = <<"fsync", "close">>)
    /\ [](fd_log # <<>> => RecordClosed)
    /\ [][fd_log # <<>> => fd_out' = fd_out /\ fd_log' = fd_log]_vars

\* write_device_info has returned although the flush of its record failed
C26_Witness ==
    /\ DeviceInfoDone
    /\ RecordClosed
    /\ Len(fd_log) = 2
    /\ fd_log[1] = [call |-> "fsync", ret |-> -1]
    /\ fd_log[2].call = "close"

-----------------------------------------------------------------------------
(* Properties of the lifecycle of the installation *)

\* the state of the lifecycle a state of the process is in: Finalizing while
\* exit hooks are left to run, Installing while a call of install_handlers is
\* under way, Installed once a call has returned true
Lifecycle ==
    IF in_exit = "exiting" /\ in_pending > 0 THEN "Finalizing"
    ELSE IF in_exit # "running" THEN "Uninstalled"
    ELSE IF \E t \in InstallThreads : in_pc[t] # "idle" THEN "Installing"
    ELSE IF \E i \in 1..Len(in_log) : in_log[i].ret THEN "Installed"
    ELSE "Uninstalled"

\* the transitions of the state machine; an installation that fails goes
\* back to Uninstalled
LifecycleTransitions ==
    {<<"Uninstalled", "Installing">>, <<"Installing", "Installed">>,
     <<"Installing", "Uninstalled">>, <<"Installed", "Finalizing">>,
     <<"Finalizing", "Uninstalled">>}

\* C27: the lifecycle only takes the transitions Uninstalled -> Installing ->
\* Installed and, at process exit through the exit hook, Installed ->
\* Finalizing -> Uninstalled: Installed is left only by the exit-time finalize,
\* and finalize is entered only from Installed, never after an installation
\* that failed and never from Uninstalled.
C27_LifecycleTransitions ==
    [][Lifecycle' # Lifecycle => <<Lifecycle, Lifecycle'>> \in LifecycleTransitions]_vars

-----------------------------------------------------------------------------
(* Properties of the order of the files of one crash *)

\* the engine's HandlerMain has returned
EngineReturned == hm_pc # "start"

\* no supplementary file has been opened and no byte of one written
NoSupplementaryFileYet ==
    /\ sup_log = <<>>
    /\ fd_out = <<>>
    /\ fd_log = <<>>

\* the device-info file was opened and the maps file was opened after it
DeviceInfoThenMaps ==
    \E i, j \in 1..Len(sup_log) :
        /\ i < j
        /\ sup_log[i].suffix = Chars_device_info
        /\ sup_log[j].suffix = Chars_maps

\* C28: for a single crash no supplementary file is opened or written until
\* the engine's HandlerMain has returned, and the device-info file is written
\* before the binary-map file.
C28_AfterEngineDeviceInfoFirst ==
    /\ ~EngineReturned => NoSupplementaryFileYet
    /\ (hm_pc = "done" /\ sup_pc = "written") => DeviceInfoThenMaps

-----------------------------------------------------------------------------
(* Properties of the path buffer of write_supplimentary_file *)

\* the two memcpy of the call made for the path and suffix at hand
PathWritten == make_suppliment_path_from(sup_path, sup_suffix, BufferSize)

\* C29: for every minidump path and every suffix, make_suppliment_path_from
\* as called by write_supplimentary_file writes only inside the 256-byte
\* buffer it is given and leaves the path NUL-terminated within it; no path
\* length makes it write past the buffer's end.
C29_PathStaysInBuffer ==
    sup_pc \notin {"idle", "start"} =>
        /\ PathWritten.kind # "null"
        /\ Len(PathWritten.text) <= BufferSize
        /\ Len(PathWritten.text) < BufferSize
        /\ ~sup_clobbered

-----------------------------------------------------------------------------
(* Properties of the contexts of the external API *)

\* the contexts the Initialize calls made so far have created
CreatedContexts ==
    {api_lib[i].ctx : i \in {j \in 1..Len(api_lib) :
                                api_lib[j].fn = "external_api_initialize"}}
        \ {NULL_CONTEXT}

\* how many times context was handed to external_api_dispose
Disposals(context) ==
    Cardinality({i \in 1..Len(api_lib) :
                    api_lib[i] = [fn |-> "external_api_dispose", ctx |-> context]})

\* call i of the history is a Terminate that follows a Terminate
SecondTerminate(i) ==
    /\ i > 1
    /\ api_history[i].op = "Terminate"
    /\ api_history[i - 1].op = "Terminate"

\* C30: for every sequence of Initialize and Terminate calls, each context a
\* successful Initialize created is disposed exactly once: none is disposed
\* twice, none is left undisposed once Terminate has been called, and a second
\* Terminate in a row is a no-op.
C30_DisposedExactlyOnce ==
    /\ \A context \in CreatedContexts : Disposals(context) <= 1
    /\ api_phase = "terminated" =>
           \A context \in CreatedContexts : Disposals(context) = 1
    /\ \A i \in 1..Len(api_history) : SecondTerminate(i) => ~api_history[i].reached

=============================================================================
